---- MODULE Spec2Model ----
(***************************************************************************)
(* TimeTicker: the Task timer (src/src/task.rs) and the application that   *)
(* drives a registry of tasks from menu events (src/src/main.rs).          *)
(*                                                                         *)
(* Time is counted in whole units.  A SystemTime is an integer, UNIX_EPOCH *)
(* is 0 and a SystemTime before the epoch is negative; a Duration is a     *)
(* natural number.  An Option is a sequence of length 0 (None) or 1 (Some).*)
(* A Result is a record with an ok flag.                                   *)
(***************************************************************************)
EXTENDS Integers, Sequences, FiniteSets, TLC

(***************************************************************************)
(* Bounds of the model.                                                    *)
(***************************************************************************)
\* the latest clock reading
MaxTime == 4
\* how far before UNIX_EPOCH the wall clock can be set
PreEpoch == 1
\* the longest configured Duration
MaxDur == 3
\* how many of the bootstrap tasks of Application::new are created
NumInitTasks == 2
\* the longest task registry (new tasks are refused beyond it)
MaxTasks == 3
\* menu events are handled while the toolkit has issued fewer MenuIds than this
MaxMenuId == 40
\* the latest clock reading while the application runs
MaxAppTime == 1
\* the longest Duration, and the farthest Deadline, entered for a new task
MaxNewDur == 1

\* the longest text handed to parse_time_input, over the general characters
MaxLen == 4
\* the longest text after '@' handed to parse_time_input
MaxTimeLen == 5
\* the longest run of digits in a single <digits><unit> text
MaxDigits == 5
\* the width of u64, scaled down to what the model checker's integers hold
U64Bits == 12
\* most events posted to the event loop and not yet handled
MaxQueue == 1

\* no menu event is posted once this many MenuIds were issued (event queue)
MaxLockMenuId == 18

\* every remaining time below (MaxFormatHours + 1) hours is formatted
MaxFormatHours == 2

\* largest task index whose action strings are decoded
MaxIndex == 12
\* MenuIds handed out before the last menu event, when no task is added
MaxPinMenuId == 70

UNIX_EPOCH == 0

MinTime == UNIX_EPOCH - PreEpoch

\* wall-clock readings
SystemTimes == MinTime..MaxTime

\* wall-clock readings while the application runs: one reading before the
\* epoch, where every clock read of a Deadline task fails, and the readings
\* from the epoch on
AppSystemTimes == (UNIX_EPOCH - 1)..MaxAppTime

\* the longest time a non-decreasing clock can advance
ClockSpan == MaxTime - MinTime

Min(a, b) == IF a <= b THEN a ELSE b

Max(a, b) == IF a >= b THEN a ELSE b

None == << >>

Some(x) == << x >>

Ok(v) == [ok |-> TRUE, val |-> v]

\* the Err value of a Result whose Ok type has the shape of v
Err(v) == [ok |-> FALSE, val |-> v]

(***************************************************************************)
(* std::time helpers used by task.rs and error.rs.                         *)
(***************************************************************************)
\* variant of saturating_sub: a plain subtraction that does not stop at zero
saturating_sub_wrapping(a, b) == a - b

\* Duration::saturating_sub
saturating_sub(a, b) == IF a >= b THEN a - b ELSE 0

\* SystemTime::duration_since(earlier) seen from clock value later
duration_since(later, earlier) == IF later >= earlier THEN Ok(later - earlier) ELSE Err(0)

\* error.rs: system_time.duration_since(UNIX_EPOCH).context(SystemTimeSnafu)
system_time_to_duration(system_time) == duration_since(system_time, UNIX_EPOCH)

\* SystemTime::elapsed: SystemTime::now().duration_since(start)
elapsed(start, clock) == duration_since(clock, start)

(***************************************************************************)
(* TaskType and Task (task.rs).                                            *)
(***************************************************************************)
Duration(d) == [tag |-> "Duration", val |-> d]

Deadline(t) == [tag |-> "Deadline", val |-> t]

TaskType == {Duration(d) : d \in 0..MaxDur} \cup {Deadline(t) : t \in SystemTimes}

\* deadline - now, clamped at zero; fails when either instant is before the epoch
deadline_remaining(t, clock) ==
    LET dl == system_time_to_duration(t)
        nw == system_time_to_duration(clock)
    IN  IF ~dl.ok THEN Err(0)
        ELSE IF ~nw.ok THEN Err(0)
        ELSE Ok(saturating_sub(dl.val, nw.val))

\* the value a task's remaining field is computed from its kind (new and reset)
initial_remaining(task_type, clock) ==
    IF task_type.tag = "Duration" THEN Ok(task_type.val)
    ELSE deadline_remaining(task_type.val, clock)

\* Task::new
Task_new(name, task_type, clock) ==
    LET remaining == initial_remaining(task_type, clock)
        made == [name |-> name, task_type |-> task_type, is_running |-> FALSE,
                 start_time |-> None, remaining |-> remaining.val, pinned |-> FALSE]
    IN  IF remaining.ok THEN Ok(made) ELSE Err(made)

\* variant of start: marks the task running without recording the start time
start_no_start_time(self, clock) ==
    IF ~self.is_running THEN [self EXCEPT !.is_running = TRUE] ELSE self

\* variant of start: restarts the measurement when the task is already running
start_restarting(self, clock) ==
    [self EXCEPT !.is_running = TRUE, !.start_time = Some(clock)]

\* Task::start
start(self, clock) ==
    IF ~self.is_running
    THEN [self EXCEPT !.is_running = TRUE, !.start_time = Some(clock)]
    ELSE self

\* variant of pause: stops the task without charging the elapsed time
pause_keeping_remaining(self, clock) ==
    Ok([self EXCEPT !.is_running = FALSE, !.start_time = None])

\* Task::pause: the task it leaves behind, and whether it returned Ok
pause(self, clock) ==
    IF self.is_running
    THEN LET s1 == [self EXCEPT !.is_running = FALSE]
         IN  IF s1.start_time # None
             THEN LET e == elapsed(s1.start_time[1], clock)
                  IN  IF ~e.ok THEN Err(s1)
                      ELSE Ok([s1 EXCEPT !.remaining = saturating_sub(s1.remaining, e.val),
                                         !.start_time = None])
             ELSE Ok([s1 EXCEPT !.start_time = None])
    ELSE Ok(self)

\* variant of reset: stops the task but keeps the remaining time it had
reset_keeping_remaining(self, clock) ==
    Ok([self EXCEPT !.is_running = FALSE, !.start_time = None])

\* Task::reset: the task it leaves behind, and whether it returned Ok
reset(self, clock) ==
    LET s1 == [self EXCEPT !.is_running = FALSE, !.start_time = None]
        remaining == initial_remaining(s1.task_type, clock)
    IN  IF remaining.ok THEN Ok([s1 EXCEPT !.remaining = remaining.val])
        ELSE Err(s1)

\* variant of get_remaining_time: the stopwatch computation for every kind of task
get_remaining_time_stopwatch(self, clock) ==
    IF ~self.is_running THEN Ok(self.remaining)
    ELSE IF self.start_time # None
         THEN LET e == elapsed(self.start_time[1], clock)
              IN  IF ~e.ok THEN Err(0)
                  ELSE Ok(saturating_sub(self.remaining, e.val))
         ELSE Ok(self.remaining)

\* Task::get_remaining_time
get_remaining_time(self, clock) ==
    IF self.task_type.tag = "Duration"
    THEN IF ~self.is_running THEN Ok(self.remaining)
         ELSE IF self.start_time # None
              THEN LET e == elapsed(self.start_time[1], clock)
                   IN  IF ~e.ok THEN Err(0)
                       ELSE Ok(saturating_sub(self.remaining, e.val))
              ELSE Ok(self.remaining)
    ELSE deadline_remaining(self.task_type.val, clock)

(***************************************************************************)
(* Action strings (main.rs).  A string is a sequence of one-character      *)
(* strings, so that starts_with, strip_prefix, format! and parse::<usize>  *)
(* work on the characters as the code does.                                *)
(***************************************************************************)
str_quit == <<"q", "u", "i", "t">>

str_dock_show == <<"d", "o", "c", "k", "_", "s", "h", "o", "w">>

str_dock_hide == <<"d", "o", "c", "k", "_", "h", "i", "d", "e">>

str_dock_test_icon == <<"d", "o", "c", "k", "_", "t", "e", "s", "t", "_", "i", "c", "o", "n">>

str_new_task == <<"n", "e", "w", "_", "t", "a", "s", "k">>

str_task_ == <<"t", "a", "s", "k", "_">>

str_toggle_ == <<"t", "o", "g", "g", "l", "e", "_">>

str_reset_ == <<"r", "e", "s", "e", "t", "_">>

str_edit_ == <<"e", "d", "i", "t", "_">>

str_delete_ == <<"d", "e", "l", "e", "t", "e", "_">>

str_pin_ == <<"p", "i", "n", "_">>

str_unpin_ == <<"u", "n", "p", "i", "n", "_">>

str_pinned_ == <<"p", "i", "n", "n", "e", "d", "_">>

str_pinned_toggle_ == str_pinned_ \o str_toggle_

str_pinned_reset_ == str_pinned_ \o str_reset_

\* the decimal digits, digit d at position d + 1
DigitChars == <<"0", "1", "2", "3", "4", "5", "6", "7", "8", "9">>

IsDigit(c) == \E d \in 1..10 : DigitChars[d] = c

DigitValue(c) == (CHOOSE d \in 1..10 : DigitChars[d] = c) - 1

\* usize::to_string, as used by format!("toggle_{i}")
RECURSIVE to_string(_)
to_string(n) ==
    IF n < 10 THEN <<DigitChars[n + 1]>>
    ELSE to_string(n \div 10) \o <<DigitChars[(n % 10) + 1]>>

\* format!("<prefix>{i}")
format_action(prefix, i) == prefix \o to_string(i)

\* str::starts_with
starts_with(s, prefix) ==
    Len(s) >= Len(prefix) /\ SubSeq(s, 1, Len(prefix)) = prefix

\* str::strip_prefix
strip_prefix(s, prefix) ==
    IF starts_with(s, prefix) THEN Some(SubSeq(s, Len(prefix) + 1, Len(s))) ELSE None

\* the number written by a non-empty sequence of digits
RECURSIVE digits_value(_)
digits_value(s) ==
    IF Len(s) = 1 THEN DigitValue(s[1])
    ELSE 10 * digits_value(SubSeq(s, 1, Len(s) - 1)) + DigitValue(s[Len(s)])

\* str::parse::<usize>: an optional '+' followed by at least one digit and
\* nothing else (indices here stay far below usize::MAX)
parse_usize(s) ==
    LET digits == IF s # << >> /\ s[1] = "+" THEN Tail(s) ELSE s
    IN  IF digits = << >> THEN Err(0)
        ELSE IF \E k \in 1..Len(digits) : ~IsDigit(digits[k]) THEN Err(0)
        ELSE Ok(digits_value(digits))

\* action.strip_prefix(prefix).ok_or_else(InvalidActionFormat)
\*       .and_then(|s| s.parse::<usize>().context(ParseActionIndex))
parse_action_index(action, prefix) ==
    LET stripped == strip_prefix(action, prefix)
    IN  IF stripped = None THEN [ok |-> FALSE, val |-> 0, err |-> "InvalidActionFormat"]
        ELSE IF ~parse_usize(stripped[1]).ok
             THEN [ok |-> FALSE, val |-> 0, err |-> "ParseActionIndex"]
        ELSE [ok |-> TRUE, val |-> parse_usize(stripped[1]).val, err |-> "none"]

\* the branch read no index from the action string
NoIndex == [ok |-> FALSE, val |-> 0, err |-> "not_parsed"]

\* no branch of the handler ran
NoBranch == << >>

\* what the if-chain of handle_menu_event made of an action string: the
\* branch it selected (named by the string or prefix the branch tests for)
\* and the index that branch read from the string
Decoded(action, branch, index) ==
    [called |-> TRUE, action |-> action, branch |-> branch, index |-> index]

\* no action string was decoded
NotDecoded == [called |-> FALSE, action |-> << >>, branch |-> NoBranch, index |-> NoIndex]

\* the if-chain testing for "pin" where the code tests for "pin_"
decode_pin_without_underscore(action) ==
    IF action = str_quit THEN Decoded(action, str_quit, NoIndex)
    ELSE IF action = str_dock_show THEN Decoded(action, str_dock_show, NoIndex)
    ELSE IF action = str_dock_hide THEN Decoded(action, str_dock_hide, NoIndex)
    ELSE IF action = str_dock_test_icon THEN Decoded(action, str_dock_test_icon, NoIndex)
    ELSE IF action = str_new_task THEN Decoded(action, str_new_task, NoIndex)
    ELSE IF starts_with(action, str_task_) THEN Decoded(action, str_task_, NoIndex)
    ELSE IF starts_with(action, str_toggle_)
        THEN Decoded(action, str_toggle_, parse_action_index(action, str_toggle_))
    ELSE IF starts_with(action, str_reset_)
        THEN Decoded(action, str_reset_, parse_action_index(action, str_reset_))
    ELSE IF starts_with(action, str_edit_) THEN Decoded(action, str_edit_, NoIndex)
    ELSE IF starts_with(action, str_delete_)
        THEN Decoded(action, str_delete_, parse_action_index(action, str_delete_))
    ELSE IF starts_with(action, <<"p", "i", "n">>)
        THEN Decoded(action, str_pin_, parse_action_index(action, str_pin_))
    ELSE IF starts_with(action, str_unpin_)
        THEN Decoded(action, str_unpin_, parse_action_index(action, str_unpin_))
    ELSE IF starts_with(action, str_pinned_toggle_)
        THEN Decoded(action, str_pinned_toggle_, parse_action_index(action, str_pinned_toggle_))
    ELSE IF starts_with(action, str_pinned_reset_)
        THEN Decoded(action, str_pinned_reset_, parse_action_index(action, str_pinned_reset_))
    ELSE Decoded(action, NoBranch, NoIndex)

\* the if-chain of handle_menu_event: the first test that holds selects the
\* branch, and a branch for a prefix reads its index from the rest
decode(action) ==
    IF action = str_quit THEN Decoded(action, str_quit, NoIndex)
    ELSE IF action = str_dock_show THEN Decoded(action, str_dock_show, NoIndex)
    ELSE IF action = str_dock_hide THEN Decoded(action, str_dock_hide, NoIndex)
    ELSE IF action = str_dock_test_icon THEN Decoded(action, str_dock_test_icon, NoIndex)
    ELSE IF action = str_new_task THEN Decoded(action, str_new_task, NoIndex)
    ELSE IF starts_with(action, str_task_) THEN Decoded(action, str_task_, NoIndex)
    ELSE IF starts_with(action, str_toggle_)
        THEN Decoded(action, str_toggle_, parse_action_index(action, str_toggle_))
    ELSE IF starts_with(action, str_reset_)
        THEN Decoded(action, str_reset_, parse_action_index(action, str_reset_))
    ELSE IF starts_with(action, str_edit_) THEN Decoded(action, str_edit_, NoIndex)
    ELSE IF starts_with(action, str_delete_)
        THEN Decoded(action, str_delete_, parse_action_index(action, str_delete_))
    ELSE IF starts_with(action, str_pin_)
        THEN Decoded(action, str_pin_, parse_action_index(action, str_pin_))
    ELSE IF starts_with(action, str_unpin_)
        THEN Decoded(action, str_unpin_, parse_action_index(action, str_unpin_))
    ELSE IF starts_with(action, str_pinned_toggle_)
        THEN Decoded(action, str_pinned_toggle_, parse_action_index(action, str_pinned_toggle_))
    ELSE IF starts_with(action, str_pinned_reset_)
        THEN Decoded(action, str_pinned_reset_, parse_action_index(action, str_pinned_reset_))
    ELSE Decoded(action, NoBranch, NoIndex)

(***************************************************************************)
(* parse_time_input (parser.rs).  Durations and clock readings are counted *)
(* in seconds here.  The local zone is a fixed offset from UTC, so that    *)
(* and_local_timezone(Local).single() always finds one instant.  u64       *)
(* arithmetic has U64Bits bits; a multiplication that overflows panics     *)
(* when the build has overflow checks and wraps when it has not.           *)
(***************************************************************************)
SecsPerMin == 60

SecsPerHour == 3600

SecsPerDay == 86400

\* u64::MAX + 1
U64Modulus == 2 ^ U64Bits

\* the name given to a task entered without one: the three characters of
\* the default, each written by its reading
default_name == <<"wei", "ming", "ming2">>

\* char::is_whitespace
is_whitespace(c) == c \in {" ", "\t", "\n", "\r"}

RECURSIVE trim_start(_)
trim_start(s) ==
    IF s # << >> /\ is_whitespace(Head(s)) THEN trim_start(Tail(s)) ELSE s

RECURSIVE trim_end(_)
trim_end(s) ==
    IF s # << >> /\ is_whitespace(s[Len(s)]) THEN trim_end(SubSeq(s, 1, Len(s) - 1)) ELSE s

\* str::trim
trim(s) == trim_end(trim_start(s))

\* the regex `.`: any character but the line feed
any_char(c) == c # "\n"

\* ^(.*?)(?:#(.+))?$ with group 1 ending after k characters: the optional
\* group is tried first, then the end of the text
captures_at(input, k) ==
    LET rest == SubSeq(input, k + 2, Len(input))
    IN  IF \E j \in 1..k : ~any_char(input[j]) THEN None
        ELSE IF /\ k < Len(input)
                /\ input[k + 1] = "#"
                /\ rest # << >>
                /\ \A j \in 1..Len(rest) : any_char(rest[j])
             THEN Some([time |-> SubSeq(input, 1, k), name |-> Some(rest)])
        ELSE IF k = Len(input) THEN Some([time |-> input, name |-> None])
        ELSE None

\* re.captures(input) for ^(.*?)(?:#(.+))?$: group 1 is lazy, so the
\* shortest group 1 that lets the rest match wins
input_captures(input) ==
    LET matching == {k \in 0..Len(input) : captures_at(input, k) # None}
    IN  IF matching = {} THEN None
        ELSE captures_at(input, CHOOSE k \in matching : \A j \in matching : k <= j)

\* the results of parse_time_input and of NaiveTime::parse_from_str
ParseOk(name, task_type) ==
    [ok |-> TRUE, panicked |-> FALSE, name |-> name, task_type |-> task_type, err |-> "none"]

ParseErr(kind) ==
    [ok |-> FALSE, panicked |-> FALSE, name |-> << >>, task_type |-> Duration(0), err |-> kind]

\* the call did not return: an arithmetic overflow panicked
ParsePanic ==
    [ok |-> FALSE, panicked |-> TRUE, name |-> << >>, task_type |-> Duration(0), err |-> "panic"]

\* the index after the run of digits (or of whitespace) that starts at p
RECURSIVE run_end(_, _, _)
run_end(s, p, digits) ==
    IF p <= Len(s) /\ (IF digits THEN IsDigit(s[p]) ELSE is_whitespace(s[p]))
        THEN run_end(s, p + 1, digits)
    ELSE p

\* chrono's scan::number(s, 1, 2): one or two leading digits
scan_number(s) ==
    LET n == Min(2, run_end(s, 1, TRUE) - 1)
    IN  IF n = 0 THEN Err(<<0, s>>)
        ELSE Ok(<<digits_value(SubSeq(s, 1, n)), SubSeq(s, n + 1, Len(s))>>)

\* NaiveTime::parse_from_str(s, "%H:%M"): the seconds since midnight.  Each
\* number skips leading whitespace and takes one or two digits; the hour is
\* in 0..23, the minute in 0..59, and nothing may follow the minute
NaiveTime_parse_from_str(s) ==
    LET hour == scan_number(trim_start(s))
        after_hour == hour.val[2]
        minute == scan_number(trim_start(Tail(after_hour)))
    IN  IF ~hour.ok THEN Err(0)
        ELSE IF hour.val[1] > 23 THEN Err(0)
        ELSE IF after_hour = << >> \/ Head(after_hour) # ":" THEN Err(0)
        ELSE IF ~minute.ok THEN Err(0)
        ELSE IF minute.val[1] > 59 THEN Err(0)
        ELSE IF minute.val[2] # << >> THEN Err(0)
        ELSE Ok(hour.val[1] * SecsPerHour + minute.val[1] * SecsPerMin)

\* re_duration.captures_iter(time_str) for (\d+)\s*([hm]), from position p
\* on: the digits are taken greedily, then the whitespace, then the unit; a
\* position where that fails is skipped
RECURSIVE duration_captures(_, _)
duration_captures(s, p) ==
    IF p > Len(s) THEN << >>
    ELSE IF ~IsDigit(s[p]) THEN duration_captures(s, p + 1)
    ELSE LET d == run_end(s, p, TRUE)
             w == run_end(s, d, FALSE)
         IN  IF w <= Len(s) /\ s[w] \in {"h", "m"}
                 THEN <<[value_str |-> SubSeq(s, p, d - 1), unit |-> s[w]]>>
                          \o duration_captures(s, w + 1)
             ELSE duration_captures(s, p + 1)

\* the loop `for cap in re_duration.captures_iter(time_str)` from the k-th
\* capture on, with total_duration so far: value_str.parse::<u64>(), then
\* value * 3600 or value * 60 in u64, then Duration += (which panics on
\* overflow in every build)
RECURSIVE accumulate(_, _, _, _)
accumulate(caps, k, total_duration, overflow_checks) ==
    IF k > Len(caps) THEN [err |-> "none", total |-> total_duration]
    ELSE LET value == digits_value(caps[k].value_str)
             factor == IF caps[k].unit = "h" THEN SecsPerHour ELSE SecsPerMin
             secs == (value * factor) % U64Modulus
         IN  IF value >= U64Modulus THEN [err |-> "ParseNumber", total |-> total_duration]
             ELSE IF caps[k].unit \notin {"h", "m"}
                 THEN [err |-> "InvalidDurationUnit", total |-> total_duration]
             ELSE IF value * factor >= U64Modulus /\ overflow_checks
                 THEN [err |-> "panic", total |-> total_duration]
             ELSE IF total_duration + secs >= U64Modulus
                 THEN [err |-> "panic", total |-> total_duration]
             ELSE accumulate(caps, k + 1, total_duration + secs, overflow_checks)

\* parse_deadline reporting a time that does not parse as a bad input format
parse_deadline_invalid_format(name, deadline_time_str, clock, utc_offset) ==
    LET time == NaiveTime_parse_from_str(deadline_time_str)
        naive_local == clock + utc_offset
        today == (naive_local \div SecsPerDay) * SecsPerDay + time.val
    IN  IF ~time.ok THEN ParseErr("InvalidInputFormat")
        ELSE ParseOk(name, Deadline((IF today < naive_local THEN today + SecsPerDay ELSE today)
                                        - utc_offset))

\* parse_deadline rolling forward also when the time of day is exactly now
parse_deadline_rolling_on_equal(name, deadline_time_str, clock, utc_offset) ==
    LET time == NaiveTime_parse_from_str(deadline_time_str)
        naive_local == clock + utc_offset
        today == (naive_local \div SecsPerDay) * SecsPerDay + time.val
    IN  IF ~time.ok THEN ParseErr("ChronoParse")
        ELSE ParseOk(name, Deadline((IF today <= naive_local THEN today + SecsPerDay ELSE today)
                                        - utc_offset))

\* parse_time_input, the branch of `if let Some(..) = time_str.strip_prefix('@')`
parse_deadline(name, deadline_time_str, clock, utc_offset) ==
    LET time == NaiveTime_parse_from_str(deadline_time_str)
        naive_local == clock + utc_offset
        date_naive == naive_local \div SecsPerDay
        today == date_naive * SecsPerDay + time.val
        deadline_datetime_naive == IF today < naive_local THEN today + SecsPerDay ELSE today
    IN  IF ~time.ok THEN ParseErr("ChronoParse")
        ELSE ParseOk(name, Deadline(deadline_datetime_naive - utc_offset))

\* parse_time_input, the else branch (a time span such as 1h30m)
parse_duration(name, time_str, overflow_checks) ==
    LET caps == duration_captures(time_str, 1)
        sum == accumulate(caps, 1, 0, overflow_checks)
    IN  IF caps = << >> /\ time_str # << >> THEN ParseErr("InvalidInputFormat")
        ELSE IF sum.err = "panic" THEN ParsePanic
        ELSE IF sum.err # "none" THEN ParseErr(sum.err)
        ELSE IF sum.total = 0 /\ time_str # << >> THEN ParseErr("ZeroDuration")
        ELSE IF sum.total = 0 THEN ParseErr("MissingTimeInput")
        ELSE ParseOk(name, Duration(sum.total))

\* parse_time_input(input) called at clock reading clock, in a zone
\* utc_offset seconds ahead of UTC
parse_time_input(input, clock, utc_offset, overflow_checks) ==
    LET caps == input_captures(input)
        time_str == trim(caps[1].time)
        name == IF caps[1].name = None THEN default_name ELSE trim(caps[1].name[1])
    IN  IF caps = None THEN ParseErr("InvalidInputFormat")
        ELSE IF time_str = << >> THEN ParseErr("MissingTimeInput")
        ELSE IF Head(time_str) = "@"
            THEN parse_deadline(name, Tail(time_str), clock, utc_offset)
        ELSE parse_duration(name, time_str, overflow_checks)

(***************************************************************************)
(* Application (main.rs).  self is the Application struct; a HashMap is a  *)
(* function, a map that is only used to reach widgets is the set of its    *)
(* keys, and Vec indices are 0-based as in the code.  A TrayIcon is the    *)
(* set of MenuIds of the menu it shows.  The widget toolkit hands out      *)
(* MenuIds from a counter (id_counter); its calls are taken to succeed.    *)
(***************************************************************************)
NoEntries == [k \in {} |-> 0]

\* HashMap::insert
insert(map, k, v) == [x \in DOMAIN map \cup {k} |-> IF x = k THEN v ELSE map[x]]

\* HashMap::remove
remove(map, k) == [x \in DOMAIN map \ {k} |-> map[x]]

\* tasks.get(index)
task_get(tasks, index) == IF index < Len(tasks) THEN Some(tasks[index + 1]) ELSE None

\* Vec::remove(index)
Vec_remove(tasks, index) == SubSeq(tasks, 1, index) \o SubSeq(tasks, index + 2, Len(tasks))

\* Application::new at clock value clock: the bootstrap tasks whose Task::new
\* returned Ok
Application_new(clock) ==
    LET test_tasks_results ==
            << Task_new("work1", Deadline(clock + 3600), clock),
               Task_new("study1", Duration(30 * 60), clock),
               Task_new("work2", Deadline(clock + 7200), clock),
               Task_new("study2", Duration(15 * 60), clock),
               Task_new("work3", Deadline(clock + 10800), clock),
               Task_new("study3", Duration(45 * 60), clock) >>
        created == SelectSeq(SubSeq(test_tasks_results, 1, NumInitTasks), LAMBDA r : r.ok)
    IN  [tray_icon |-> None,
         tasks |-> [k \in 1..Len(created) |-> created[k].val],
         menu_ids |-> NoEntries,
         menu_items |-> {},
         control_items |-> {},
         pinned_tray_icons |-> NoEntries,
         pinned_menu_items |-> {},
         pinned_control_items |-> {},
         id_counter |-> 0,
         poisoned |-> FALSE,
         exited |-> FALSE]

\* self.tasks.lock(): Err(PoisonError) once the Mutex is poisoned, else the
\* guard (the Application it is taken on)
lock(self) == IF self.poisoned THEN Err(self) ELSE Ok(self)

\* let item = MenuItem::new(..); self.menu_ids.insert(item.id().clone(), action)
register(self, action) ==
    [self EXCEPT !.menu_ids = insert(@, self.id_counter, action),
                 !.id_counter = @ + 1]

\* the MenuIds handed out between two states of self
issued_between(before, after) == {id \in 0..(after.id_counter - 1) : id >= before.id_counter}

\* build_menu, the body of `for (i, task) in tasks.iter().enumerate()` from index i on
RECURSIVE build_task_submenus(_, _, _)
build_task_submenus(self, i, clock) ==
    IF i >= Len(self.tasks) THEN Ok(self)
    ELSE LET t == self.tasks[i + 1]
             s1 == [self EXCEPT !.menu_items = @ \cup {i}]
             s2 == IF t.task_type.tag = "Duration"
                   THEN register([register(s1, format_action(str_toggle_, i))
                                     EXCEPT !.control_items = @ \cup {i}],
                                 format_action(str_reset_, i))
                   ELSE s1
             s3 == register(s2, str_new_task)
             s4 == register(s3, format_action(str_edit_, i))
             s5 == register(s4, format_action(str_delete_, i))
             s6 == register(s5, format_action(str_pin_, i))
         IN  IF ~get_remaining_time(t, clock).ok THEN Err(self)
             ELSE build_task_submenus(s6, i + 1, clock)

\* build_menu without menu_ids.clear(): the entries of earlier menus stay
build_menu_keeping_all(self, clock) ==
    LET s0 == [self EXCEPT !.menu_items = {},
                           !.control_items = {}]
        s1 == IF lock(s0).ok THEN build_task_submenus(s0, 0, clock) ELSE Err(s0)
    IN  IF ~s1.ok THEN s1
        ELSE Ok(register(register(register(register(register(s1.val,
                    str_new_task), str_dock_show), str_dock_hide), str_dock_test_icon), str_quit))

\* build_menu clearing the whole identifier table, the pinned entries too
build_menu_clearing_all(self, clock) ==
    LET s0 == [self EXCEPT !.menu_ids = NoEntries,
                           !.menu_items = {},
                           !.control_items = {}]
        s1 == IF lock(s0).ok THEN build_task_submenus(s0, 0, clock) ELSE Err(s0)
    IN  IF ~s1.ok THEN s1
        ELSE Ok(register(register(register(register(register(s1.val,
                    str_new_task), str_dock_show), str_dock_hide), str_dock_test_icon), str_quit))

\* Application::build_menu: the Application it leaves behind, and whether it returned Ok
build_menu(self, clock) ==
    LET pinned_menu_ids ==
            {id \in DOMAIN self.menu_ids :
                \/ starts_with(self.menu_ids[id], str_pinned_)
                \/ starts_with(self.menu_ids[id], str_unpin_)}
        s0 == [self EXCEPT !.menu_ids = [id \in pinned_menu_ids |-> self.menu_ids[id]],
                           !.menu_items = {},
                           !.control_items = {}]
        s1 == IF lock(s0).ok THEN build_task_submenus(s0, 0, clock) ELSE Err(s0)
    IN  IF ~s1.ok THEN s1
        ELSE Ok(register(register(register(register(register(s1.val,
                    str_new_task), str_dock_show), str_dock_hide), str_dock_test_icon), str_quit))

\* variant of refresh_menu: commits the remaining time it displays to every task
refresh_menu_writing_back(self, clock) ==
    LET committed == [self EXCEPT !.tasks =
                         [k \in 1..Len(self.tasks) |->
                             [self.tasks[k] EXCEPT !.remaining =
                                 get_remaining_time(self.tasks[k], clock).val]]]
        built == build_menu(committed, clock)
    IN  IF ~built.ok THEN built
        ELSE Ok([built.val EXCEPT !.tray_icon =
                    IF self.tray_icon # None THEN Some(issued_between(self, built.val)) ELSE None])

\* Application::refresh_menu
refresh_menu(self, clock) ==
    LET built == build_menu(self, clock)
    IN  IF ~built.ok THEN built
        ELSE Ok([built.val EXCEPT !.tray_icon =
                    IF self.tray_icon # None THEN Some(issued_between(self, built.val)) ELSE None])

\* new_events(StartCause::Init): self.new_tray_icon() and its Ok / Err arms
new_tray_icon(self, clock) ==
    LET built == build_menu(self, clock)
    IN  IF ~built.ok THEN built
        ELSE Ok([built.val EXCEPT !.tray_icon = Some(issued_between(self, built.val))])

\* Application::build_pinned_task_menu
build_pinned_task_menu(self, task_index, task_type) ==
    LET s1 == [self EXCEPT !.pinned_menu_items = @ \cup {task_index}]
        s2 == IF task_type.tag = "Duration"
              THEN register([register(s1, format_action(str_pinned_toggle_, task_index))
                                EXCEPT !.pinned_control_items = @ \cup {task_index}],
                            format_action(str_pinned_reset_, task_index))
              ELSE s1
    IN  register(s2, format_action(str_unpin_, task_index))

\* Application::create_pinned_tray_icon
create_pinned_tray_icon(self, task_index, clock) ==
    LET found == task_get(self.tasks, task_index)
    IN  IF ~lock(self).ok THEN Err(self)
        ELSE IF found = None THEN Ok(self)
        ELSE IF ~get_remaining_time(found[1], clock).ok THEN Err(self)
        ELSE LET s1 == build_pinned_task_menu(self, task_index, found[1].task_type)
             IN  Ok([s1 EXCEPT !.pinned_tray_icons =
                        insert(@, task_index, issued_between(self, s1))])

\* Application::remove_pinned_tray_icon
remove_pinned_tray_icon(self, task_index) ==
    [self EXCEPT !.pinned_tray_icons = remove(@, task_index),
                 !.pinned_menu_items = @ \ {task_index},
                 !.pinned_control_items = @ \ {task_index}]

\* Application::update_pinned_tray_icon: only its Result, it changes no field
update_pinned_tray_icon(self, task_index, clock) ==
    LET found == task_get(self.tasks, task_index)
    IN  IF ~lock(self).ok THEN Err(self)
        ELSE IF found = None THEN Ok(self)
        ELSE IF ~get_remaining_time(found[1], clock).ok THEN Err(self)
        ELSE Ok(self)

\* Application::update_tray_icon: only its Result, it changes no field
update_tray_icon(self, clock) ==
    IF /\ self.tray_icon # None
       /\ \/ ~lock(self).ok
          \/ \E i \in 0..(Len(self.tasks) - 1) :
                ~get_remaining_time(self.tasks[i + 1], clock).ok
    THEN Err(self)
    ELSE Ok(self)

\* the toggle block also clearing the pinned flag of the task
toggle_task_unpinning(self, index, clock) ==
    LET found == task_get(self.tasks, index)
    IN  IF found = None THEN self
        ELSE [self EXCEPT !.tasks[index + 1] =
                 [(IF found[1].is_running THEN pause(found[1], clock).val
                   ELSE start(found[1], clock)) EXCEPT !.pinned = FALSE]]

\* the toggle block taking the tasks out of a poisoned Mutex
\* (PoisonError::into_inner) instead of giving up
toggle_task_ignoring_poison(self, index, clock) ==
    LET found == task_get(self.tasks, index)
    IN  IF found = None THEN self
        ELSE [self EXCEPT !.tasks[index + 1] =
                 IF found[1].is_running THEN pause(found[1], clock).val
                 ELSE start(found[1], clock)]

\* the `if let Ok(mut tasks) = self.tasks.lock()` block of the toggle_ and
\* pinned_toggle_ branches
toggle_task(self, index, clock) ==
    LET found == task_get(self.tasks, index)
    IN  IF ~lock(self).ok THEN self
        ELSE IF found = None THEN self
        ELSE [self EXCEPT !.tasks[index + 1] =
                 IF found[1].is_running THEN pause(found[1], clock).val
                 ELSE start(found[1], clock)]

\* the lock block of the reset_ and pinned_reset_ branches
reset_task(self, index, clock) ==
    LET found == task_get(self.tasks, index)
    IN  IF ~lock(self).ok THEN self
        ELSE IF found = None THEN self
        ELSE [self EXCEPT !.tasks[index + 1] = reset(found[1], clock).val]

\* the delete block with Vec::swap_remove: the last task takes the place of
\* the deleted one
delete_task_swap_remove(self, index) ==
    IF index < Len(self.tasks)
        THEN [self EXCEPT !.tasks =
                 [k \in 1..(Len(@) - 1) |-> IF k = index + 1 THEN @[Len(@)] ELSE @[k]]]
    ELSE self

\* the lock block of the delete_ branch
delete_task(self, index) ==
    IF ~lock(self).ok THEN self
    ELSE IF index < Len(self.tasks) THEN [self EXCEPT !.tasks = Vec_remove(@, index)]
    ELSE self

\* the pin_ branch up to refresh_menu
pin_task(self, index, clock) ==
    LET found == task_get(self.tasks, index)
        s1 == [self EXCEPT !.tasks[index + 1].pinned = ~found[1].pinned]
    IN  IF ~lock(self).ok THEN self
        ELSE IF found = None THEN self
        ELSE IF s1.tasks[index + 1].pinned
             THEN create_pinned_tray_icon(s1, index, clock).val
             ELSE remove_pinned_tray_icon(s1, index)

\* the unpin_ branch flipping the pinned flag as the pin_ branch does
unpin_task_flipping(self, index) ==
    LET found == task_get(self.tasks, index)
    IN  IF found = None THEN self
        ELSE remove_pinned_tray_icon(
                 [self EXCEPT !.tasks[index + 1].pinned = ~found[1].pinned], index)

\* the unpin_ branch removing the pinned icon whether or not the task exists
unpin_task_removing_always(self, index) ==
    LET found == task_get(self.tasks, index)
    IN  IF found = None THEN remove_pinned_tray_icon(self, index)
        ELSE remove_pinned_tray_icon([self EXCEPT !.tasks[index + 1].pinned = FALSE], index)

\* the unpin_ branch up to refresh_menu
unpin_task(self, index) ==
    LET found == task_get(self.tasks, index)
    IN  IF ~lock(self).ok THEN self
        ELSE IF found = None THEN self
        ELSE remove_pinned_tray_icon([self EXCEPT !.tasks[index + 1].pinned = FALSE], index)

\* the environment of a run: the local zone's offset from UTC in seconds
\* and whether the build checks integer overflow
Env(utc_offset, overflow_checks) ==
    [utc_offset |-> utc_offset, overflow_checks |-> overflow_checks]

\* parse_time_input was not called
NotParsed == ParseErr("not_called")

\* the text the input dialog is opened with
default_text == <<"1", "h", "#", "xin", "ren", "wu">>

\* show_input_dialog: texts the dialog returns (trimmed and not empty); it
\* returns the default text on platforms without a dialog
DialogTexts ==
    {default_text, <<"a">>, <<"#", "a">>, <<"@", "a">>}
        \cup {to_string(d) \o <<"m">> : d \in 0..(MaxNewDur - 1)}
        \cup {<<"@", "0", "0", ":", "0">> \o to_string(d) : d \in 0..(MaxNewDur - 1)}

\* show_input_dialog: None when the dialog is cancelled or fails
DialogResults == {None} \cup {Some(text) : text \in DialogTexts}

\* handle_new_task adding a task of the default length when the text does
\* not parse
handle_new_task_adding_on_error(self, user_input, clock, env) ==
    IF user_input = None
        THEN [self |-> self, outcome |-> "cancelled", parsed |-> NotParsed]
    ELSE LET parsed_input == parse_time_input(user_input[1], clock, env.utc_offset,
                                              env.overflow_checks)
             task_type == IF parsed_input.ok THEN parsed_input.task_type
                          ELSE Duration(SecsPerHour)
             made == Task_new(parsed_input.name, task_type, clock)
             s1 == IF made.ok THEN [self EXCEPT !.tasks = Append(@, made.val)] ELSE self
         IN  [self |-> refresh_menu(s1, clock).val,
              outcome |-> IF made.ok THEN "created" ELSE "create_failed",
              parsed |-> parsed_input]

\* handle_new_task putting the new task first
handle_new_task_prepending(self, user_input, clock, env) ==
    IF user_input = None
        THEN [self |-> self, outcome |-> "cancelled", parsed |-> NotParsed]
    ELSE LET parsed_input == parse_time_input(user_input[1], clock, env.utc_offset,
                                              env.overflow_checks)
             made == Task_new(parsed_input.name, parsed_input.task_type, clock)
             s1 == IF made.ok THEN [self EXCEPT !.tasks = <<made.val>> \o @] ELSE self
         IN  IF ~parsed_input.ok
                 THEN [self |-> self, outcome |-> "parse_failed", parsed |-> parsed_input]
             ELSE [self |-> refresh_menu(s1, clock).val,
                   outcome |-> IF made.ok THEN "created" ELSE "create_failed",
                   parsed |-> parsed_input]

\* Application::handle_new_task, with what show_input_dialog returned
handle_new_task(self, user_input, clock, env) ==
    IF user_input = None
        THEN [self |-> self, outcome |-> "cancelled", parsed |-> NotParsed]
    ELSE LET parsed_input == parse_time_input(user_input[1], clock, env.utc_offset,
                                              env.overflow_checks)
             made == Task_new(parsed_input.name, parsed_input.task_type, clock)
             s1 == IF made.ok /\ lock(self).ok THEN [self EXCEPT !.tasks = Append(@, made.val)]
                   ELSE self
         IN  IF parsed_input.panicked
                 THEN [self |-> [self EXCEPT !.exited = TRUE], outcome |-> "panicked",
                       parsed |-> parsed_input]
             ELSE IF ~parsed_input.ok
                 THEN [self |-> self, outcome |-> "parse_failed", parsed |-> parsed_input]
             ELSE [self |-> refresh_menu(s1, clock).val,
                   outcome |-> IF ~made.ok THEN "create_failed"
                               ELSE IF ~lock(self).ok THEN "lock_failed"
                               ELSE "created",
                   parsed |-> parsed_input]

\* what handle_menu_event did: the Application it leaves behind, the action
\* string the MenuId resolved to, what was logged, what parse_time_input
\* returned if it was called, and the branch and index decoded
Handled(self, action, outcome) ==
    [self |-> self, action |-> action, outcome |-> outcome, parsed |-> NotParsed,
     decoded |-> NotDecoded]

\* the body of the Ok(index) arm of the branch for each prefix
index_body(self, prefix, index, clock) ==
    IF prefix \in {str_toggle_, str_pinned_toggle_} THEN toggle_task(self, index, clock)
    ELSE IF prefix \in {str_reset_, str_pinned_reset_} THEN reset_task(self, index, clock)
    ELSE IF prefix = str_delete_ THEN delete_task(self, index)
    ELSE IF prefix = str_pin_ THEN pin_task(self, index, clock)
    ELSE unpin_task(self, index)

\* match action.strip_prefix(prefix)...and_then(parse) {
\*     Ok(index) => { body; refresh_menu() }, Err(e) => error!(..) }
index_branch(self, action, prefix, clock) ==
    LET index == parse_action_index(action, prefix)
    IN  IF index.ok
            THEN Handled(refresh_menu(index_body(self, prefix, index.val, clock), clock).val,
                         Some(action), "handled")
        ELSE Handled(self, Some(action), index.err)

\* the branches of handle_menu_event, for the action string the MenuId
\* resolved to
run_branch(self, action, branch, user_input, clock, env) ==
    IF branch = str_quit
        THEN Handled([self EXCEPT !.exited = TRUE], Some(action), "exit")
    ELSE IF branch \in {str_dock_show, str_dock_hide, str_dock_test_icon}
        THEN Handled(self, Some(action), "handled")
    ELSE IF branch = str_new_task
        THEN [action |-> Some(action), decoded |-> NotDecoded]
                 @@ handle_new_task(self, user_input, clock, env)
    ELSE IF branch \in {str_task_, str_edit_}
        THEN Handled(self, Some(action), "handled")
    ELSE IF branch = NoBranch
        THEN Handled(self, Some(action), "ignored")
    ELSE index_branch(self, action, branch, clock)

\* handle_menu_event rebuilding the menu when the MenuId is not in menu_ids
handle_menu_event_refreshing_on_unknown(self, menu_id, user_input, clock, env) ==
    IF menu_id \notin DOMAIN self.menu_ids
        THEN Handled(refresh_menu(self, clock).val, None, "unknown_id")
    ELSE LET action == self.menu_ids[menu_id]
         IN  [run_branch(self, action, decode(action).branch, user_input, clock, env)
                 EXCEPT !.decoded = decode(action)]

\* Application::handle_menu_event
handle_menu_event(self, menu_id, user_input, clock, env) ==
    IF menu_id \notin DOMAIN self.menu_ids THEN Handled(self, None, "unknown_id")
    ELSE LET action == self.menu_ids[menu_id]
         IN  [run_branch(self, action, decode(action).branch, user_input, clock, env)
                 EXCEPT !.decoded = decode(action)]

\* the MenuIds of the menus on screen: the tray icon's and the pinned icons'
shown_menu_ids(self) ==
    (IF self.tray_icon # None THEN self.tray_icon[1] ELSE {})
        \cup UNION {self.pinned_tray_icons[i] : i \in DOMAIN self.pinned_tray_icons}

(***************************************************************************)
(* The display of a remaining time (main.rs).                              *)
(***************************************************************************)
\* format!("{n:02}"): decimal, padded with zeros to at least two characters
format_02(n) ==
    LET s == to_string(n)
    IN  IF Len(s) < 2 THEN <<"0">> \o s ELSE s

\* format_remaining_time with the minutes not reduced modulo the hour
format_remaining_time_total_minutes(duration) ==
    LET total_seconds == duration
        hours == total_seconds \div 3600
        minutes == total_seconds \div 60
        seconds == total_seconds % 60
    IN  format_02(hours) \o <<":">> \o format_02(minutes) \o <<":">> \o format_02(seconds)

\* format_remaining_time; a Duration is its whole seconds (Duration::as_secs)
format_remaining_time(duration) ==
    LET total_seconds == duration
        hours == total_seconds \div 3600
        minutes == (total_seconds % 3600) \div 60
        seconds == total_seconds % 60
    IN  format_02(hours) \o <<":">> \o format_02(minutes) \o <<":">> \o format_02(seconds)

\* time_str.split(':').collect(): the pieces of s between the separators
RECURSIVE split(_, _)
split(s, sep) ==
    IF \A k \in 1..Len(s) : s[k] # sep THEN <<s>>
    ELSE LET k == CHOOSE j \in 1..Len(s) : s[j] = sep /\ \A l \in 1..(j - 1) : s[l] # sep
         IN  <<SubSeq(s, 1, k - 1)>> \o split(SubSeq(s, k + 1, Len(s)), sep)

\* a remaining time and the string format_remaining_time made of it
Shown(duration, text) == [called |-> TRUE, duration |-> duration, text |-> text]

\* format_remaining_time was not called
NotShown == [called |-> FALSE, duration |-> 0, text |-> << >>]

(***************************************************************************)
(* The lock of the task list (self.tasks: Arc<Mutex<Vec<Task>>>) and the   *)
(* calls into the menu / tray-icon toolkit: what each function does with   *)
(* them, in order, as a sequence of                                        *)
(*   "lock"      self.tasks.lock() returned the guard                      *)
(*   "lock_err"  self.tasks.lock() returned Err: the Mutex is poisoned     *)
(*   "unlock"    the guard is dropped (end of its block, drop(), or a      *)
(*               return through `?`)                                       *)
(*   "widget"    a widget is created, changed or dropped                   *)
(***************************************************************************)
\* n widget calls
widgets(n) == [k \in 1..n |-> "widget"]

\* the number of tasks that `for (i, task) in tasks.iter().enumerate()`
\* gets through before `task.get_remaining_time()?` returns from the function
tasks_shown(self, clock) ==
    LET failing == {i \in 0..(Len(self.tasks) - 1) :
                       ~get_remaining_time(self.tasks[i + 1], clock).ok}
    IN  IF failing = {} THEN Len(self.tasks)
        ELSE CHOOSE i \in failing : \A j \in failing : i <= j

\* `if let Ok(mut tasks) = self.tasks.lock() { .. } else { error!(..) }` where
\* the block reads and writes tasks only
lock_block_ops(self) == IF lock(self).ok THEN <<"lock", "unlock">> ELSE <<"lock_err">>

\* Application::build_menu: Menu::new(), then the block that holds the guard
\* while it makes the submenu of each task, then the items below the tasks
build_menu_ops(self, clock) ==
    <<"widget">>
        \o (IF ~lock(self).ok THEN <<"lock_err">>
            ELSE <<"lock">> \o widgets(tasks_shown(self, clock)) \o <<"unlock">>
                     \o (IF tasks_shown(self, clock) = Len(self.tasks) THEN <<"widget">>
                         ELSE << >>))

\* Application::refresh_menu: build_menu()?, then tray_icon.set_menu
refresh_menu_ops(self, clock) ==
    build_menu_ops(self, clock)
        \o (IF build_menu(self, clock).ok /\ self.tray_icon # None THEN <<"widget">> ELSE << >>)

\* Application::new_tray_icon: build_menu()?, then TrayIconBuilder::build
new_tray_icon_ops(self, clock) ==
    build_menu_ops(self, clock)
        \o (IF build_menu(self, clock).ok THEN <<"widget">> ELSE << >>)

\* Application::update_pinned_tray_icon: the fields of the task are copied in
\* a block that holds the guard; the icon, the time item and the control item
\* are updated after it
update_pinned_tray_icon_ops(self, task_index, clock) ==
    LET found == task_get(self.tasks, task_index)
    IN  IF ~lock(self).ok THEN <<"lock_err">>
        ELSE <<"lock", "unlock">>
                 \o (IF found = None THEN << >>
                     ELSE IF ~get_remaining_time(found[1], clock).ok THEN << >>
                     ELSE (IF task_index \in DOMAIN self.pinned_tray_icons
                           THEN <<"widget">> ELSE << >>)
                       \o (IF task_index \in self.pinned_menu_items
                           THEN <<"widget">> ELSE << >>)
                       \o (IF /\ task_index \in self.pinned_control_items
                              /\ found[1].task_type.tag = "Duration"
                           THEN <<"widget">> ELSE << >>))

\* `for index in pinned_indices { self.update_pinned_tray_icon(index) }`
RECURSIVE pinned_updates_ops(_, _, _)
pinned_updates_ops(self, indices, clock) ==
    IF indices = {} THEN << >>
    ELSE LET index == CHOOSE i \in indices : \A j \in indices : i <= j
         IN  update_pinned_tray_icon_ops(self, index, clock)
                 \o pinned_updates_ops(self, indices \ {index}, clock)

\* the set_text calls of update_tray_icon for the first n tasks
text_updates(self, n) ==
    widgets(Cardinality({i \in 0..(n - 1) : i \in self.menu_items})
            + Cardinality({i \in 0..(n - 1) :
                              /\ i \in self.control_items
                              /\ self.tasks[i + 1].task_type.tag = "Duration"}))

\* update_tray_icon with the guard living until the function returns
update_tray_icon_ops_guard_to_end(self, clock) ==
    LET n == tasks_shown(self, clock)
    IN  IF self.tray_icon = None
            THEN pinned_updates_ops(self, DOMAIN self.pinned_tray_icons, clock)
        ELSE IF ~lock(self).ok THEN <<"lock_err">>
        ELSE IF n < Len(self.tasks) THEN <<"lock">> \o text_updates(self, n) \o <<"unlock">>
        ELSE <<"lock">> \o text_updates(self, n) \o <<"widget">>
                 \o pinned_updates_ops(self, DOMAIN self.pinned_tray_icons, clock)
                 \o <<"unlock">>

\* Application::update_tray_icon: with a tray icon, the guard is taken, the
\* texts of the items and the tooltip are set, drop(tasks); then every pinned
\* icon is updated
update_tray_icon_ops(self, clock) ==
    LET n == tasks_shown(self, clock)
    IN  IF self.tray_icon = None
            THEN pinned_updates_ops(self, DOMAIN self.pinned_tray_icons, clock)
        ELSE IF ~lock(self).ok THEN <<"lock_err">>
        ELSE IF n < Len(self.tasks) THEN <<"lock">> \o text_updates(self, n) \o <<"unlock">>
        ELSE <<"lock">> \o text_updates(self, n) \o <<"widget", "unlock">>
                 \o pinned_updates_ops(self, DOMAIN self.pinned_tray_icons, clock)

\* Application::create_pinned_tray_icon: the fields of the task are copied in
\* a block that holds the guard; build_pinned_task_menu and
\* TrayIconBuilder::build come after it
create_pinned_tray_icon_ops(self, task_index, clock) ==
    LET found == task_get(self.tasks, task_index)
    IN  IF ~lock(self).ok THEN <<"lock_err">>
        ELSE <<"lock", "unlock">>
                 \o (IF found = None THEN << >>
                     ELSE IF ~get_remaining_time(found[1], clock).ok THEN << >>
                     ELSE <<"widget", "widget">>)

\* the Ok(index) arm of the branch for each prefix: the lock block, for pin_
\* and unpin_ the icon made or dropped, refresh_menu, and for pinned_toggle_
\* and pinned_reset_ update_pinned_tray_icon
index_branch_ops(self, prefix, index, clock) ==
    LET found == task_get(self.tasks, index)
        body == index_body(self, prefix, index, clock)
        dropped == IF index \in DOMAIN self.pinned_tray_icons THEN <<"widget">> ELSE << >>
    IN  lock_block_ops(self)
            \o (IF ~lock(self).ok \/ found = None THEN << >>
                ELSE IF prefix = str_pin_ /\ ~found[1].pinned
                    THEN create_pinned_tray_icon_ops(self, index, clock)
                ELSE IF prefix \in {str_pin_, str_unpin_} THEN dropped
                ELSE << >>)
            \o refresh_menu_ops(body, clock)
            \o (IF prefix \in {str_pinned_toggle_, str_pinned_reset_}
                THEN update_pinned_tray_icon_ops(refresh_menu(body, clock).val, index, clock)
                ELSE << >>)

\* Application::handle_new_task: the dialog and the parser take no lock; the
\* task made is pushed in a lock block, then refresh_menu
handle_new_task_ops(self, user_input, clock, env) ==
    IF user_input = None THEN << >>
    ELSE LET parsed_input == parse_time_input(user_input[1], clock, env.utc_offset,
                                              env.overflow_checks)
             made == Task_new(parsed_input.name, parsed_input.task_type, clock)
             s1 == IF made.ok /\ lock(self).ok THEN [self EXCEPT !.tasks = Append(@, made.val)]
                   ELSE self
         IN  IF parsed_input.panicked \/ ~parsed_input.ok THEN << >>
             ELSE (IF made.ok THEN lock_block_ops(self) ELSE << >>)
                      \o refresh_menu_ops(s1, clock)

\* Application::handle_menu_event
handle_menu_event_ops(self, menu_id, user_input, clock, env) ==
    IF menu_id \notin DOMAIN self.menu_ids THEN << >>
    ELSE LET action == self.menu_ids[menu_id]
             branch == decode(action).branch
         IN  IF branch = str_new_task THEN handle_new_task_ops(self, user_input, clock, env)
             ELSE IF branch \in {str_quit, str_dock_show, str_dock_hide, str_dock_test_icon,
                                 str_task_, str_edit_, NoBranch}
                 THEN << >>
             ELSE IF ~parse_action_index(action, branch).ok THEN << >>
             ELSE index_branch_ops(self, branch, parse_action_index(action, branch).val, clock)

\* the guard is held when step k of the sequence is made
held_before(sequence, k) ==
    Cardinality({j \in 1..(k - 1) : sequence[j] = "lock"})
        > Cardinality({j \in 1..(k - 1) : sequence[j] = "unlock"})

\* the guard is still held when the sequence is over
held_after(sequence) == held_before(sequence, Len(sequence) + 1)

\* self.tasks.lock() is called by the thread that holds the guard: the call
\* never returns (std's Mutex is not reentrant)
relocks(sequence) ==
    \E k \in 1..Len(sequence) :
        sequence[k] \in {"lock", "lock_err"} /\ held_before(sequence, k)

\* the names of the tasks the pinned tray icons were created for, after a
\* handler took the Application from before to after: an icon kept keeps its
\* task, an icon created by create_pinned_tray_icon is for the task at its index
track(made_for, before, after) ==
    [i \in DOMAIN after.pinned_tray_icons |->
        IF /\ i \in DOMAIN before.pinned_tray_icons
           /\ after.pinned_tray_icons[i] = before.pinned_tray_icons[i]
        THEN made_for[i]
        ELSE after.tasks[i + 1].name]

(***************************************************************************)
(* State.                                                                  *)
(*   now        the wall clock (SystemTime::now())                         *)
(*   task       one Task object driven through its public methods          *)
(*   result     the last call made on task and what it returned            *)
(*   run_total  history variable: the time the clock advanced while task   *)
(*              was running, since its creation or last successful reset   *)
(*              (it stops counting at ClockSpan, which a clock that never  *)
(*              goes back cannot exceed)                                   *)
(*   app        the Application driven by the event loop                   *)
(*   event      the last step of the application: the event its event     *)
(*              loop handled, or a change of the wall clock                *)
(*   input      the text last handed to parse_time_input                   *)
(*   env        the local zone and the build the program runs in           *)
(*   parsed     what that call of parse_time_input returned                *)
(*   decoded    the action string last decoded, the branch of the handler  *)
(*              it selected and the index that branch read                 *)
(*   shown      a remaining time and the string it is displayed as         *)
(*   ops        what the handler of the last event did with the lock of    *)
(*              the task list and with the widgets, in order               *)
(*   queue      the events posted to the event loop and not yet handled    *)
(*   surface_task  history variable: for each pinned tray icon, the name   *)
(*              of the task that was at its index when it was created      *)
(* Spec and SpecMono drive task and leave app alone; SpecApp drives app    *)
(* and leaves task alone; SpecParse calls parse_time_input on a text;      *)
(* SpecDecode decodes an action string; SpecPin drives app through the     *)
(* items of its menus at one clock reading; SpecFormat formats a remaining *)
(* time; SpecLock posts events to the queue of the event loop and handles  *)
(* them in order, recording the lock and widget steps of each handler.     *)
(***************************************************************************)
VARIABLES now, task, result, run_total, app, event, input, env, parsed, decoded,
          shown, ops, queue, surface_task

vars == <<now, task, result, run_total, app, event, input, env, parsed, decoded,
          shown, ops, queue, surface_task>>

Called(op, ok, val) == [op |-> op, ok |-> ok, val |-> val]

Event(kind, action, outcome) == [kind |-> kind, action |-> action, outcome |-> outcome]

\* the state right after Task::new(name, task_type) returned Ok at some clock value
Init ==
    /\ now \in SystemTimes
    /\ \E task_type \in TaskType :
          /\ Task_new("t", task_type, now).ok
          /\ task = Task_new("t", task_type, now).val
    /\ result = Called("new", TRUE, 0)
    /\ run_total = 0
    /\ app = Application_new(UNIX_EPOCH)
    /\ event = Event("new", None, "handled")
    /\ input = << >>
    /\ env = Env(0, FALSE)
    /\ parsed = NotParsed
    /\ decoded = NotDecoded
    /\ shown = NotShown
    /\ ops = << >>
    /\ queue = << >>
    /\ surface_task = NoEntries

\* a call of task.start()
CallStart ==
    /\ task' = start(task, now)
    /\ result' = Called("start", TRUE, 0)
    /\ UNCHANGED <<now, run_total, app, event, input, env, parsed, decoded, shown, ops, queue, surface_task>>

\* a call of task.pause()
CallPause ==
    /\ task' = pause(task, now).val
    /\ result' = Called("pause", pause(task, now).ok, 0)
    /\ UNCHANGED <<now, run_total, app, event, input, env, parsed, decoded, shown, ops, queue, surface_task>>

\* a call of task.reset()
CallReset ==
    /\ task' = reset(task, now).val
    /\ result' = Called("reset", reset(task, now).ok, 0)
    /\ run_total' = IF reset(task, now).ok THEN 0 ELSE run_total
    /\ UNCHANGED <<now, app, event, input, env, parsed, decoded, shown, ops, queue, surface_task>>

\* a call of task.get_remaining_time()
CallGetRemainingTime ==
    /\ result' = Called("get_remaining_time", get_remaining_time(task, now).ok,
                        get_remaining_time(task, now).val)
    /\ UNCHANGED <<now, task, run_total, app, event, input, env, parsed, decoded, shown, ops, queue, surface_task>>

\* the wall clock advances
Tick ==
    /\ \E t \in SystemTimes : t > now /\ now' = t
    /\ run_total' = IF task.is_running THEN Min(ClockSpan, run_total + (now' - now))
                    ELSE run_total
    /\ result' = Called("tick", TRUE, 0)
    /\ UNCHANGED <<task, app, event, input, env, parsed, decoded, shown, ops, queue, surface_task>>

\* the wall clock is set back (SystemTime is not monotonic)
ClockBack ==
    /\ \E t \in SystemTimes : t < now /\ now' = t
    /\ result' = Called("clock_back", TRUE, 0)
    /\ UNCHANGED <<task, run_total, app, event, input, env, parsed, decoded, shown, ops, queue, surface_task>>

Next ==
    \/ CallStart
    \/ CallPause
    \/ CallReset
    \/ CallGetRemainingTime
    \/ Tick
    \/ ClockBack

Spec == Init /\ [][Next]_vars

\* the same task under a clock that never goes back
NextMono ==
    \/ CallStart
    \/ CallPause
    \/ CallReset
    \/ CallGetRemainingTime
    \/ Tick

SpecMono == Init /\ [][NextMono]_vars

(***************************************************************************)
(* The application under its event loop (main.rs: main, user_event).       *)
(***************************************************************************)
\* the state right after Application::new() in main
InitApp ==
    /\ now \in AppSystemTimes
    /\ app = Application_new(now)
    /\ event = Event("new", None, "handled")
    /\ task = Task_new("t", Duration(0), UNIX_EPOCH).val
    /\ result = Called("new", TRUE, 0)
    /\ run_total = 0
    /\ input = << >>
    /\ env = Env(0, FALSE)
    /\ parsed = NotParsed
    /\ decoded = NotDecoded
    /\ shown = NotShown
    /\ ops = << >>
    /\ queue = << >>
    /\ surface_task = NoEntries

\* new_events(StartCause::Init): the tray icon and its menu are created
NewEventsInit ==
    /\ event.kind = "new"
    /\ app' = new_tray_icon(app, now).val
    /\ event' = Event("Init", None, IF new_tray_icon(app, now).ok THEN "handled" ELSE "failed")
    /\ input' = << >>
    /\ parsed' = NotParsed
    /\ decoded' = NotDecoded
    /\ UNCHANGED <<shown, ops, queue, surface_task>>
    /\ UNCHANGED <<now, task, result, run_total, env>>

\* user_event(UserEvent::MenuEvent): an item of a menu on screen was clicked;
\* a click on "new task" opens the input dialog
MenuEvent ==
    /\ event.kind # "new"
    /\ ~app.exited
    /\ app.id_counter < MaxMenuId
    /\ \E menu_id \in shown_menu_ids(app) :
          LET new_task == menu_id \in DOMAIN app.menu_ids /\ app.menu_ids[menu_id] = str_new_task
          IN  \E user_input \in (IF new_task THEN DialogResults ELSE {None}) :
                 \E handled \in {handle_menu_event(app, menu_id, user_input, now, env)} :
                     /\ handled.parsed.ok => Len(app.tasks) < MaxTasks
                     /\ app' = handled.self
                     /\ event' = Event("MenuEvent", handled.action, handled.outcome)
                     /\ input' = IF user_input = None THEN << >> ELSE user_input[1]
                     /\ parsed' = handled.parsed
                     /\ decoded' = handled.decoded
                     /\ surface_task' = track(surface_task, app, handled.self)
                     /\ UNCHANGED <<shown, ops, queue>>
    /\ UNCHANGED <<now, task, result, run_total, env>>

\* user_event(UserEvent::UpdateTimer): the once-a-second tick
UpdateTimer ==
    /\ event.kind # "new"
    /\ ~app.exited
    /\ event' = Event("UpdateTimer", None, IF update_tray_icon(app, now).ok THEN "handled" ELSE "failed")
    /\ input' = << >>
    /\ parsed' = NotParsed
    /\ decoded' = NotDecoded
    /\ UNCHANGED <<shown, ops, queue, surface_task>>
    /\ UNCHANGED <<now, app, task, result, run_total, env>>

\* the wall clock advances while the application runs
AppTick ==
    /\ ~app.exited
    /\ \E t \in AppSystemTimes : t > now /\ now' = t
    /\ event' = Event("clock", None, "advanced")
    /\ input' = << >>
    /\ parsed' = NotParsed
    /\ decoded' = NotDecoded
    /\ UNCHANGED <<shown, ops, queue, surface_task>>
    /\ UNCHANGED <<app, task, result, run_total, env>>

\* the wall clock is set back while the application runs
AppClockBack ==
    /\ ~app.exited
    /\ \E t \in AppSystemTimes : t < now /\ now' = t
    /\ event' = Event("clock", None, "set_back")
    /\ input' = << >>
    /\ parsed' = NotParsed
    /\ decoded' = NotDecoded
    /\ UNCHANGED <<shown, ops, queue, surface_task>>
    /\ UNCHANGED <<app, task, result, run_total, env>>

NextApp ==
    \/ NewEventsInit
    \/ MenuEvent
    \/ UpdateTimer
    \/ AppTick
    \/ AppClockBack

SpecApp == InitApp /\ [][NextApp]_vars

(***************************************************************************)
(* The application with its bootstrap tasks only: every input dialog is    *)
(* cancelled and the wall clock stays within a second of the epoch, so     *)
(* that longer runs of toggle, reset, delete, pin and unpin commands fit   *)
(* under the cap on MenuIds.                                               *)
(***************************************************************************)
\* wall-clock readings: the second before the epoch, where every clock read
\* of a Deadline task fails, and the epoch
PinSystemTimes == {UNIX_EPOCH - 1, UNIX_EPOCH}

\* the state right after Application::new() in main
InitPin ==
    /\ now \in PinSystemTimes
    /\ app = Application_new(now)
    /\ event = Event("new", None, "handled")
    /\ task = Task_new("t", Duration(0), UNIX_EPOCH).val
    /\ result = Called("new", TRUE, 0)
    /\ run_total = 0
    /\ input = << >>
    /\ env = Env(0, FALSE)
    /\ parsed = NotParsed
    /\ decoded = NotDecoded
    /\ shown = NotShown
    /\ ops = << >>
    /\ queue = << >>
    /\ surface_task = NoEntries

\* user_event(UserEvent::MenuEvent): an item of a menu on screen was clicked;
\* the dialog of a click on "new task" is cancelled
PinMenuEvent ==
    /\ event.kind # "new"
    /\ ~app.exited
    /\ app.id_counter < MaxPinMenuId
    /\ \E menu_id \in shown_menu_ids(app) :
          \E handled \in {handle_menu_event(app, menu_id, None, now, env)} :
              /\ app' = handled.self
              /\ event' = Event("MenuEvent", handled.action, handled.outcome)
              /\ parsed' = handled.parsed
              /\ decoded' = handled.decoded
              /\ surface_task' = track(surface_task, app, handled.self)
              /\ UNCHANGED <<shown, ops, queue>>
    /\ input' = << >>
    /\ UNCHANGED <<now, task, result, run_total, env>>

\* the wall clock moves to the other reading
PinClock ==
    /\ ~app.exited
    /\ \E t \in PinSystemTimes \ {now} :
          /\ now' = t
          /\ event' = Event("clock", None, IF t > now THEN "advanced" ELSE "set_back")
    /\ input' = << >>
    /\ parsed' = NotParsed
    /\ decoded' = NotDecoded
    /\ UNCHANGED <<shown, ops, queue, surface_task>>
    /\ UNCHANGED <<app, task, result, run_total, env>>

NextPin ==
    \/ NewEventsInit
    \/ PinMenuEvent
    \/ PinClock

SpecPin == InitPin /\ [][NextPin]_vars

(***************************************************************************)
(* parse_time_input called on a text (parser.rs).                          *)
(***************************************************************************)
\* every text of at most n characters drawn from chars
Strings(chars, n) == UNION {[1..k -> chars] : k \in 0..n}

\* characters of the texts tried: digits, the units, the name separator,
\* whitespace, and a letter that is neither digit nor unit
GeneralChars == {"0", "1", "h", "m", "#", " ", "a"}

\* characters of the texts tried after '@'
TimeChars == {"0", "2", "6", ":"}

\* the texts parse_time_input is called on: texts over the general
\* characters, '@' followed by a text over the time characters, and one
\* long number with a unit
Inputs ==
    Strings(GeneralChars, MaxLen)
        \cup {<<"@">> \o text : text \in Strings(TimeChars, MaxTimeLen)}
        \cup {[k \in 1..n |-> "1"] \o <<unit>> : n \in 1..MaxDigits, unit \in {"h", "m"}}

\* clock readings at which parse_time_input is called: around the epoch
\* (local midnight in UTC) and in the middle of a day
ParseClocks == AppSystemTimes \cup {2 * SecsPerMin, 2 * SecsPerHour + 1}

\* the environments parse_time_input runs in
Envs == {Env(utc_offset, overflow_checks) :
            utc_offset \in {0, SecsPerHour}, overflow_checks \in BOOLEAN}

InitParse ==
    /\ now \in ParseClocks
    /\ env \in Envs
    /\ input \in Inputs
    /\ parsed = NotParsed
    /\ decoded = NotDecoded
    /\ shown = NotShown
    /\ ops = << >>
    /\ queue = << >>
    /\ surface_task = NoEntries
    /\ app = Application_new(UNIX_EPOCH)
    /\ event = Event("new", None, "handled")
    /\ task = Task_new("t", Duration(0), UNIX_EPOCH).val
    /\ result = Called("new", TRUE, 0)
    /\ run_total = 0

\* a call of parse_time_input(input)
CallParse ==
    /\ parsed = NotParsed
    /\ parsed' = parse_time_input(input, now, env.utc_offset, env.overflow_checks)
    /\ UNCHANGED <<now, task, result, run_total, app, event, input, env, decoded, shown, ops, queue, surface_task>>

NextParse == CallParse

SpecParse == InitParse /\ [][NextParse]_vars

(***************************************************************************)
(* The if-chain of handle_menu_event applied to an action string           *)
(* (main.rs).                                                              *)
(***************************************************************************)
\* the prefixes the menu builders put before a task index
IndexedPrefixes ==
    {str_toggle_, str_reset_, str_edit_, str_delete_, str_pin_, str_unpin_,
     str_pinned_toggle_, str_pinned_reset_}

\* the action strings the menu builders register without an index
BareActions == {str_quit, str_new_task, str_dock_show, str_dock_hide, str_dock_test_icon}

\* what may follow a prefix in a string no builder made: nothing, letters, a
\* sign, a digit followed by a letter, a blank, a leading zero
Suffixes ==
    {<< >>, <<"a", "b", "c">>, <<"-", "1">>, <<"+", "1">>, <<"1", "a">>,
     <<" ", "1">>, <<"0", "1">>}

\* strings that begin like no action string, or like a verb without its
\* underscore
Strays ==
    {<< >>, <<"f", "r", "o", "b", "n", "i", "c", "a", "t", "e">>,
     <<"t", "o", "g", "g", "l", "e">>, <<"T", "o", "g", "g", "l", "e", "_", "0">>,
     <<"3">>, str_pinned_, str_pinned_ \o <<"0">>, <<"p", "i", "n">>,
     <<"_", "t", "o", "g", "g", "l", "e", "_", "0">>}

\* the action strings decoded: those the builders register for the indices
\* up to MaxIndex, and strings they never register
ActionStrings ==
    {format_action(prefix, i) : prefix \in IndexedPrefixes \cup {str_task_}, i \in 0..MaxIndex}
        \cup BareActions
        \cup {prefix \o suffix : prefix \in IndexedPrefixes \cup BareActions, suffix \in Suffixes}
        \cup Strays

InitDecode ==
    /\ decoded \in {[NotDecoded EXCEPT !.action = a] : a \in ActionStrings}
    /\ shown = NotShown
    /\ ops = << >>
    /\ queue = << >>
    /\ surface_task = NoEntries
    /\ now = UNIX_EPOCH
    /\ env = Env(0, FALSE)
    /\ input = << >>
    /\ parsed = NotParsed
    /\ app = Application_new(UNIX_EPOCH)
    /\ event = Event("new", None, "handled")
    /\ task = Task_new("t", Duration(0), UNIX_EPOCH).val
    /\ result = Called("new", TRUE, 0)
    /\ run_total = 0

\* the if-chain is run on the action string
CallDecode ==
    /\ ~decoded.called
    /\ decoded' = decode(decoded.action)
    /\ UNCHANGED <<now, task, result, run_total, app, event, input, env, parsed, shown, ops, queue, surface_task>>

NextDecode == CallDecode

SpecDecode == InitDecode /\ [][NextDecode]_vars

(***************************************************************************)
(* Specification of the event loop and the lock: the timer thread and the  *)
(* menu post events to the queue of the event loop, whose thread handles   *)
(* them one at a time in the order posted; the lock and widget steps of    *)
(* each handler are recorded in ops. The Mutex may become poisoned.        *)
(***************************************************************************)
\* an event with this number is waiting in the queue
queued(seq) == \E k \in 1..Len(queue) : queue[k].seq = seq

\* the handler that makes these steps returns: it never calls lock() while
\* the guard is held, by itself or left held by the handler before it
returns(last_ops, handler_ops) ==
    ~relocks((IF held_after(last_ops) THEN <<"lock">> ELSE << >>) \o handler_ops)

\* the thread of the event loop is inside a lock() that never returns
blocked == event.outcome = "blocked"

InitLock ==
    /\ now \in PinSystemTimes
    /\ app = Application_new(now)
    /\ event = Event("new", None, "handled")
    /\ env = Env(0, FALSE)
    /\ input = << >>
    /\ parsed = NotParsed
    /\ decoded = NotDecoded
    /\ shown = NotShown
    /\ ops = << >>
    /\ queue = << >>
    /\ surface_task = NoEntries
    /\ task = Task_new("t", Duration(0), UNIX_EPOCH).val
    /\ result = Called("new", TRUE, 0)
    /\ run_total = 0

\* new_events(StartCause::Init), with the steps of new_tray_icon recorded
LockNewEventsInit ==
    /\ event.kind = "new"
    /\ app' = new_tray_icon(app, now).val
    /\ event' = Event("Init", None, IF new_tray_icon(app, now).ok THEN "handled" ELSE "failed")
    /\ ops' = new_tray_icon_ops(app, now)
    /\ input' = << >>
    /\ parsed' = NotParsed
    /\ decoded' = NotDecoded
    /\ UNCHANGED <<now, task, result, run_total, env, shown, queue, surface_task>>

\* the timer thread: proxy_timer.send_event(UserEvent::UpdateTimer)
PostUpdateTimer ==
    /\ event.kind # "new"
    /\ ~app.exited
    /\ Len(queue) < MaxQueue
    /\ \E seq \in {IF queue = << >> THEN 0 ELSE (queue[Len(queue)].seq + 1) % (MaxQueue + 1)} :
          queue' = Append(queue, [kind |-> "UpdateTimer", menu_id |-> None, seq |-> seq])
    /\ UNCHANGED <<now, task, result, run_total, app, event, input, env, parsed, decoded,
                   shown, ops, surface_task>>

\* the menu: proxy_menu_event.send_event(UserEvent::MenuEvent(event)) for an
\* item of a menu on screen
PostMenuEvent ==
    /\ event.kind # "new"
    /\ ~app.exited
    /\ ~blocked
    /\ Len(queue) < MaxQueue
    /\ app.id_counter < MaxLockMenuId
    /\ \E seq \in {IF queue = << >> THEN 0 ELSE (queue[Len(queue)].seq + 1) % (MaxQueue + 1)} :
          \E menu_id \in shown_menu_ids(app) :
              queue' = Append(queue, [kind |-> "MenuEvent", menu_id |-> Some(menu_id), seq |-> seq])
    /\ UNCHANGED <<now, task, result, run_total, app, event, input, env, parsed, decoded,
                   shown, ops, surface_task>>

\* user_event(UserEvent::UpdateTimer) for the event at the head of the queue;
\* a handler that calls lock() while the guard is held never returns
HandleUpdateTimer ==
    /\ ~app.exited
    /\ ~blocked
    /\ queue # << >>
    /\ Head(queue).kind = "UpdateTimer"
    /\ \E steps \in {update_tray_icon_ops(app, now)} :
          /\ ops' = steps
          /\ IF returns(ops, steps)
                 THEN /\ queue' = Tail(queue)
                      /\ event' = Event("UpdateTimer", None,
                                        IF update_tray_icon(app, now).ok THEN "handled"
                                        ELSE "failed")
             ELSE /\ queue' = queue
                  /\ event' = Event("UpdateTimer", None, "blocked")
    /\ input' = << >>
    /\ parsed' = NotParsed
    /\ decoded' = NotDecoded
    /\ UNCHANGED <<now, app, task, result, run_total, env, shown, surface_task>>

\* user_event(UserEvent::MenuEvent(event)) for the event at the head of the
\* queue; the input dialog is cancelled
HandleMenuEvent ==
    /\ ~app.exited
    /\ ~blocked
    /\ queue # << >>
    /\ Head(queue).kind = "MenuEvent"
    /\ \E menu_id \in {Head(queue).menu_id[1]} :
          \E steps \in {handle_menu_event_ops(app, menu_id, None, now, env)} :
              \E handled \in {handle_menu_event(app, menu_id, None, now, env)} :
                  /\ ops' = steps
                  /\ decoded' = handled.decoded
                  /\ IF returns(ops, steps)
                         THEN /\ queue' = Tail(queue)
                              /\ app' = handled.self
                              /\ event' = Event("MenuEvent", handled.action, handled.outcome)
                              /\ parsed' = handled.parsed
                              /\ surface_task' = track(surface_task, app, handled.self)
                     ELSE /\ queue' = queue
                          /\ event' = Event("MenuEvent", handled.action, "blocked")
                          /\ parsed' = NotParsed
                          /\ UNCHANGED <<app, surface_task>>
    /\ input' = << >>
    /\ UNCHANGED <<now, task, result, run_total, env, shown>>

\* the Mutex becomes poisoned: from now on every self.tasks.lock() returns Err
PoisonLock ==
    /\ event.kind # "new"
    /\ ~app.exited
    /\ ~app.poisoned
    /\ app' = [app EXCEPT !.poisoned = TRUE]
    /\ UNCHANGED <<now, task, result, run_total, event, input, env, parsed, decoded,
                   shown, ops, queue, surface_task>>

\* the wall clock is set between two events, once the tray icon was made
LockClock ==
    /\ event.kind # "new"
    /\ ~blocked
    /\ \E t \in PinSystemTimes \ {now} : now' = t
    /\ UNCHANGED <<task, result, run_total, app, event, input, env, parsed, decoded,
                   shown, ops, queue, surface_task>>

NextLock ==
    \/ LockNewEventsInit
    \/ PostUpdateTimer
    \/ PostMenuEvent
    \/ HandleUpdateTimer
    \/ HandleMenuEvent
    \/ PoisonLock
    \/ LockClock

SpecLock == InitLock /\ [][NextLock]_vars

\* user_event returns and the event loop takes the next event of its queue
Dispatch ==
    /\ ~app.exited
    /\ ~blocked
    /\ queue # << >>
    /\ queue' = Tail(queue)

\* the event loop keeps dispatching the events of its queue to user_event
\* as long as user_event returns
SpecLockLive == SpecLock /\ WF_queue(Dispatch)

(***************************************************************************)
(* Specification of the display: format_remaining_time is applied to a     *)
(* remaining time.                                                         *)
(***************************************************************************)
\* the remaining times formatted: every second of the first hours, and the
\* first and last seconds of some longer hour counts
FormatDurations ==
    0..(MaxFormatHours * 3600 + 3599)
        \cup {h * 3600 + r : h \in {9, 10, 23, 24, 99, 100, 1000}, r \in {0, 59, 60, 3599}}

InitFormat ==
    /\ shown \in {[NotShown EXCEPT !.duration = d] : d \in FormatDurations}
    /\ decoded = NotDecoded
    /\ ops = << >>
    /\ queue = << >>
    /\ surface_task = NoEntries
    /\ now = UNIX_EPOCH
    /\ env = Env(0, FALSE)
    /\ input = << >>
    /\ parsed = NotParsed
    /\ app = Application_new(UNIX_EPOCH)
    /\ event = Event("new", None, "handled")
    /\ task = Task_new("t", Duration(0), UNIX_EPOCH).val
    /\ result = Called("new", TRUE, 0)
    /\ run_total = 0

\* the remaining time is formatted
CallFormat ==
    /\ ~shown.called
    /\ shown' = Shown(shown.duration, format_remaining_time(shown.duration))
    /\ UNCHANGED <<now, task, result, run_total, app, event, input, env, parsed, decoded,
                   ops, queue, surface_task>>

NextFormat == CallFormat

SpecFormat == InitFormat /\ [][NextFormat]_vars

(***************************************************************************)
(* Properties of the Task timer.                                           *)
(***************************************************************************)
IsDuration == task.task_type.tag = "Duration"

IsDeadline == task.task_type.tag = "Deadline"

\* what task.get_remaining_time() returns in the current state
RemainingTime == get_remaining_time(task, now)

\* C1: in every state reached by new/start/pause/reset calls, including calls
\* that returned an error, a running task has its start time set.
C1_RunningHasStartTime == task.is_running => task.start_time # None

C1_Witness == task.is_running /\ task.start_time # None /\ result.op = "start"

\* C2: a pause() that returns an error leaves the task exactly as it was
\* before the call (is_running, start_time and remaining unchanged).
C2_PauseErrorLeavesTaskUnmodified ==
    [][(result'.op = "pause" /\ ~result'.ok) => task' = task]_vars

\* C3: a reset() that returns an error leaves the task exactly as it was
\* before the call (is_running, start_time and remaining unchanged).
C3_ResetErrorLeavesTaskIntact ==
    [][(result'.op = "reset" /\ ~result'.ok) => task' = task]_vars

\* C4: under a clock that never goes back, a Duration(d) task reports
\* max(0, d - T), T being the time the task has been running since its
\* creation or last reset; time that passes while it is paused is not charged.
C4_DurationCountsRunningTimeOnly ==
    IsDuration => RemainingTime = Ok(Max(0, task.task_type.val - run_total))

C4_Witness ==
    /\ IsDuration /\ ~task.is_running /\ result.op = "tick"
    /\ run_total > 0 /\ RemainingTime.val > 0

\* C5: under a clock that never goes back, no start, pause, read or clock
\* advance makes get_remaining_time() larger than it was; only reset may.
C5_RemainingTimeNeverIncreases ==
    [][(result'.op # "reset") =>
          /\ get_remaining_time(task', now').ok
          /\ get_remaining_time(task', now').val <= RemainingTime.val]_vars

C5_Witness ==
    /\ result.op = "pause" /\ ~task.is_running /\ run_total > 0
    /\ RemainingTime.val < task.task_type.val

\* C6: start() on a task that is already running changes nothing; start_time
\* keeps the reading of the first start.
C6_StartIdempotent ==
    [][(result'.op = "start" /\ task.is_running) => task' = task]_vars

C6_Witness ==
    /\ result.op = "start" /\ task.is_running
    /\ task.start_time # None /\ task.start_time # Some(now)

\* C7: for a Deadline task, whenever the clock can be read,
\* get_remaining_time() is max(0, deadline - now) whatever is_running,
\* start_time and remaining hold.
C7_DeadlineAlwaysLive ==
    (IsDeadline /\ RemainingTime.ok) =>
        RemainingTime.val = Max(0, task.task_type.val - now)

C7_Witness ==
    /\ IsDeadline /\ task.is_running /\ RemainingTime.ok
    /\ task.remaining # RemainingTime.val

\* C8: right after new and right after every successful reset() a Duration(d)
\* task is not running, has no start time, and reports d.
C8_NewAndResetRestoreDuration ==
    (IsDuration /\ result.op \in {"new", "reset"} /\ result.ok) =>
        /\ ~task.is_running
        /\ task.start_time = None
        /\ RemainingTime = Ok(task.task_type.val)

C8_Witness ==
    IsDuration /\ result.op = "reset" /\ result.ok /\ now > UNIX_EPOCH /\ task.task_type.val > 0

\* C9: remaining is never negative, and under a clock that never goes back a
\* Duration task that reports zero keeps reporting zero through every
\* start, pause, read and clock advance until it is reset.
C9_ZeroUntilReset ==
    /\ [](task.remaining >= 0)
    /\ [][(IsDuration /\ RemainingTime = Ok(0) /\ result'.op # "reset") =>
             get_remaining_time(task', now') = Ok(0)]_vars

C9_Witness ==
    /\ IsDuration /\ task.task_type.val > 0 /\ task.is_running
    /\ task.start_time # None /\ now - task.start_time[1] > task.remaining

\* C11: in every reachable state, the state after a pause() that returned an
\* error included, a task that is not running has no start_time.
C11_NotRunningHasNoStartTime == ~task.is_running => task.start_time = None

(***************************************************************************)
(* Properties of the application.                                          *)
(***************************************************************************)
\* the remaining fields of a registry, in order
remaining_fields(tasks) == [k \in 1..Len(tasks) |-> tasks[k].remaining]

\* the event just handled was a menu click that resolved to action string a
Clicked(ev, a) == ev.kind = "MenuEvent" /\ ev.action = Some(a)

\* C10: the stored remaining of a task is written only by its creation, by a
\* pause() of the running task and by reset(): starting a task, reading the
\* remaining time, the periodic tick, menu rebuilds, pin and unpin leave the
\* remaining of every task as it was (delete only removes one entry, new task
\* only appends one).
C10_RemainingWrittenOnlyByPauseAndReset ==
    [][IF Clicked(event', str_new_task)
       THEN /\ Len(app'.tasks) >= Len(app.tasks)
            /\ SubSeq(remaining_fields(app'.tasks), 1, Len(app.tasks)) = remaining_fields(app.tasks)
       ELSE IF \E i \in 0..(Len(app.tasks) - 1) : Clicked(event', format_action(str_delete_, i))
       THEN \E i \in 0..(Len(app.tasks) - 1) :
                /\ Clicked(event', format_action(str_delete_, i))
                /\ remaining_fields(app'.tasks) = remaining_fields(Vec_remove(app.tasks, i))
       ELSE /\ Len(app'.tasks) = Len(app.tasks)
            /\ \A i \in 0..(Len(app.tasks) - 1) :
                  app'.tasks[i + 1].remaining # app.tasks[i + 1].remaining =>
                     \/ /\ app.tasks[i + 1].is_running
                        /\ \/ Clicked(event', format_action(str_toggle_, i))
                           \/ Clicked(event', format_action(str_pinned_toggle_, i))
                     \/ Clicked(event', format_action(str_reset_, i))
                     \/ Clicked(event', format_action(str_pinned_reset_, i))]_vars

\* a running Duration task was shown by the periodic tick with less time than
\* its stored remaining
C10_Witness ==
    /\ event.kind = "UpdateTimer"
    /\ \E k \in 1..Len(app.tasks) :
          /\ app.tasks[k].task_type.tag = "Duration"
          /\ app.tasks[k].is_running
          /\ get_remaining_time(app.tasks[k], now).ok
          /\ get_remaining_time(app.tasks[k], now).val < app.tasks[k].remaining

(***************************************************************************)
(* Properties of parse_time_input.  The grammar of the input is            *)
(* time_part ["#" label_part]: time_part is the text before the first '#'  *)
(* and label_part the text after it.                                       *)
(***************************************************************************)
\* the position of the first '#' of text, or Len(text) + 1
first_hash(text) ==
    IF \E k \in 1..Len(text) : text[k] = "#"
        THEN CHOOSE k \in 1..Len(text) : text[k] = "#" /\ \A j \in 1..(k - 1) : text[j] # "#"
    ELSE Len(text) + 1

time_part(text) == trim(SubSeq(text, 1, first_hash(text) - 1))

label_present(text) == first_hash(text) <= Len(text)

label_part(text) == trim(SubSeq(text, first_hash(text) + 1, Len(text)))

starts_with_at(text) == time_part(text) # << >> /\ Head(time_part(text)) = "@"

\* parse_time_input has returned or panicked
Returned == parsed # NotParsed

IsUnit(c) == c \in {"h", "m"}

\* s is one or more <digits><unit> tokens and nothing else
IsTokens(s) ==
    /\ s # << >>
    /\ \A k \in 1..Len(s) : IsDigit(s[k]) \/ IsUnit(s[k])
    /\ IsUnit(s[Len(s)])
    /\ \A k \in 1..Len(s) : IsUnit(s[k]) => k > 1 /\ IsDigit(s[k - 1])

\* s without its whitespace
RECURSIVE without_whitespace(_)
without_whitespace(s) ==
    IF s = << >> THEN << >>
    ELSE IF is_whitespace(Head(s)) THEN without_whitespace(Tail(s))
    ELSE <<Head(s)>> \o without_whitespace(Tail(s))

\* the seconds written by the tokens of s from position k on, value being
\* the number read so far: hours x 3600 + minutes x 60, in exact arithmetic
RECURSIVE TokenSum(_, _, _)
TokenSum(s, k, value) ==
    IF k > Len(s) THEN 0
    ELSE IF IsDigit(s[k]) THEN TokenSum(s, k + 1, 10 * value + DigitValue(s[k]))
    ELSE (IF s[k] = "h" THEN 3600 ELSE 60) * value + TokenSum(s, k + 1, 0)

\* C12: a time_part made of <digits><unit> tokens (with a total that is not
\* zero) parses to Duration(total), total being the sum over the tokens of
\* value x 3600 s for h and value x 60 s for m.
C12_TokensSumToDuration ==
    (Returned /\ IsTokens(time_part(input)) /\ TokenSum(time_part(input), 1, 0) > 0) =>
        /\ parsed.ok
        /\ parsed.task_type = Duration(TokenSum(time_part(input), 1, 0))

\* C13: when time_part does not start with '@', parse succeeds only if the
\* whole time_part is a sequence of <digits><unit> tokens (whitespace aside).
C13_OnlyTokenSequencesParse ==
    (Returned /\ ~starts_with_at(input) /\ parsed.ok) =>
        IsTokens(without_whitespace(time_part(input)))

\* C14: when time_part does not start with '@': an empty time_part fails with
\* MissingTimeInput, a time_part with no token fails with InvalidFormat, tokens
\* that sum to zero fail with ZeroDuration, and Duration(0) is never returned.
C14_ErrorsPartitioned ==
    (Returned /\ ~starts_with_at(input)) =>
        LET tokens == duration_captures(time_part(input), 1)
        IN  /\ time_part(input) = << >> => parsed = ParseErr("MissingTimeInput")
            /\ (time_part(input) # << >> /\ tokens = << >>) =>
                   parsed = ParseErr("InvalidInputFormat")
            /\ (tokens # << >> /\ \A k \in 1..Len(tokens) :
                                      digits_value(tokens[k].value_str) = 0) =>
                   parsed = ParseErr("ZeroDuration")
            /\ ~(parsed.ok /\ parsed.task_type = Duration(0))

\* s is an hour 0..23 and a minute 0..59, two digits each, around ':'
IsHHMM(s) ==
    /\ Len(s) = 5
    /\ \A k \in {1, 2, 4, 5} : IsDigit(s[k])
    /\ s[3] = ":"
    /\ 10 * DigitValue(s[1]) + DigitValue(s[2]) <= 23
    /\ 10 * DigitValue(s[4]) + DigitValue(s[5]) <= 59

\* the seconds from midnight to the HH:MM written by s
SecondsOfDay(s) ==
    (10 * DigitValue(s[1]) + DigitValue(s[2])) * 3600
        + (10 * DigitValue(s[4]) + DigitValue(s[5])) * 60

\* the text after the '@' of time_part
after_at(text) == Tail(time_part(text))

C16_DeadlineIsNextOccurrence ==
    (Returned /\ starts_with_at(input) /\ IsHHMM(after_at(input))) =>
        LET local_now == now + env.utc_offset
            midnight == local_now - (local_now % 86400)
            today == midnight + SecondsOfDay(after_at(input))
            deadline == parsed.task_type.val + env.utc_offset
        IN  /\ parsed.ok
            /\ parsed.task_type.tag = "Deadline"
            /\ deadline = IF today >= local_now THEN today ELSE today + 86400
            /\ parsed.task_type.val >= now
            /\ parsed.task_type.val - now < 86400

\* a time of day already past was parsed: the deadline is tomorrow's
C16_Witness ==
    /\ Returned
    /\ IsHHMM(after_at(input))
    /\ parsed.ok
    /\ LET local_now == now + env.utc_offset
       IN  /\ SecondsOfDay(after_at(input)) < local_now % 86400
           /\ parsed.task_type.val + env.utc_offset
                  = local_now - (local_now % 86400) + 86400 + SecondsOfDay(after_at(input))

\* C17: the name returned is label_part trimmed when there is one, and the
\* default name when label_part is absent or empty after trimming; it is
\* never empty.
C17_NameIsLabelOrDefault ==
    (Returned /\ parsed.ok) =>
        /\ parsed.name = IF label_present(input) /\ label_part(input) # << >>
                         THEN label_part(input) ELSE default_name
        /\ parsed.name # << >>

\* C18: parse_time_input always returns: it never panics, and a Duration it
\* returns for <digits><unit> tokens is their exact sum, never a wrapped one.
C18_TotalAndExact ==
    Returned =>
        /\ ~parsed.panicked
        /\ (parsed.ok /\ IsTokens(time_part(input))) =>
               parsed.task_type = Duration(TokenSum(time_part(input), 1, 0))

(***************************************************************************)
(* Properties of the "new task" command.                                   *)
(***************************************************************************)
\* one task was appended: it is neither running nor pinned, and every task
\* that was there keeps its index and its fields
Appended ==
    /\ Len(app'.tasks) = Len(app.tasks) + 1
    /\ ~app'.tasks[Len(app'.tasks)].is_running
    /\ ~app'.tasks[Len(app'.tasks)].pinned
    /\ SubSeq(app'.tasks, 1, Len(app.tasks)) = app.tasks

\* Task::new can read the clock: the task is a Duration, or neither the
\* clock nor the deadline is before the UNIX epoch
ClockReadable(task_type) ==
    \/ task_type.tag = "Duration"
    \/ now >= UNIX_EPOCH /\ task_type.val >= UNIX_EPOCH

\* C19: a "new task" command whose text does not parse, or whose dialog is
\* cancelled, leaves the registry as it was: same length, same fields.
C19_ParseErrorLeavesRegistry ==
    [][(Clicked(event', str_new_task) /\ ~parsed'.ok) => app'.tasks = app.tasks]_vars

\* a text was entered, it did not parse, and the tasks are all still there
C19_Witness ==
    /\ Clicked(event, str_new_task)
    /\ input # << >>
    /\ parsed.err = "ZeroDuration"
    /\ Len(app.tasks) = NumInitTasks

\* C20 as stated: a "new task" command whose text parses appends exactly one
\* task, not running and not pinned, and keeps every existing task.
C20_ParsedTextAppendsOneTask ==
    [][(Clicked(event', str_new_task) /\ parsed'.ok) => Appended]_vars

\* C20 amended: a "new task" command whose text parses appends exactly one
\* task, not running and not pinned, and keeps every existing task, when
\* Task::new can read the clock; when it cannot, the registry is as it was.
C20_ParsedTextAppendsUnlessClockError ==
    [][(Clicked(event', str_new_task) /\ parsed'.ok) =>
           IF ClockReadable(parsed'.task_type) THEN Appended
           ELSE app'.tasks = app.tasks]_vars

\* a text was parsed and its task is the last of the registry
C20_Witness ==
    /\ Clicked(event, str_new_task)
    /\ parsed.ok
    /\ event.outcome = "created"
    /\ Len(app.tasks) = NumInitTasks + 1
    /\ app.tasks[Len(app.tasks)].name = parsed.name
    /\ app.tasks[Len(app.tasks)].task_type = parsed.task_type


(***************************************************************************)
(* Properties of the decoding of action strings (SpecDecode).              *)
(***************************************************************************)
\* the index branch read, when it read one
IndexRead(i) == [ok |-> TRUE, val |-> i, err |-> "none"]

\* the prefixes whose branch reads an index: all but edit_, whose branch
\* only logs that editing is not implemented
IndexReadingPrefixes == IndexedPrefixes \ {str_edit_}

StartsWithKnownVerb(action) ==
    \/ \E prefix \in IndexedPrefixes \cup {str_task_} : starts_with(action, prefix)
    \/ \E bare \in BareActions : starts_with(action, bare)

\* C22: decoding fails with ParseActionIndex when the string starts with the
\* prefix of a verb and what follows is not a non-negative integer, and
\* fails with InvalidActionFormat when the string starts with no known verb
\* or prefix.
C22_DecodeErrors ==
    decoded.called =>
        /\ \A prefix \in IndexedPrefixes :
              (/\ starts_with(decoded.action, prefix)
               /\ ~parse_usize(strip_prefix(decoded.action, prefix)[1]).ok)
                  => decoded.index.err = "ParseActionIndex"
        /\ ~StartsWithKnownVerb(decoded.action) => decoded.index.err = "InvalidActionFormat"


(***************************************************************************)
(* Properties of the commands on the registry and the pinned icons.        *)
(***************************************************************************)
\* the PinSet: the pinned tray icons with their menus, and the items kept
\* to refresh them
PinSet(self) ==
    <<self.pinned_tray_icons, self.pinned_menu_items, self.pinned_control_items>>

\* the menu event just handled was dropped: its MenuId is not in menu_ids,
\* or its action string selected no branch, or a branch that could not read
\* its index, or the edit_ branch
Dropped(ev, dec) ==
    /\ ev.kind = "MenuEvent"
    /\ \/ ev.action = None
       \/ /\ dec.called
          /\ \/ dec.branch \in {NoBranch, str_edit_}
             \/ dec.branch \in IndexReadingPrefixes /\ ~dec.index.ok

\* C23: a menu event whose MenuId is not in the identifier table, or whose
\* action string does not decode or names Edit, is ignored: the tasks, the
\* PinSet and the identifier table are as before and the process runs on.
C23_StrayEventsIgnored ==
    [][Dropped(event', decoded') =>
          /\ app'.tasks = app.tasks
          /\ PinSet(app') = PinSet(app)
          /\ app'.menu_ids = app.menu_ids
          /\ ~app'.exited]_vars

\* an item of a menu that is still on screen after a failed rebuild was
\* clicked: its MenuId was not found, and the tasks and a pinned icon are
\* still there
C23_Witness ==
    /\ event.kind = "MenuEvent"
    /\ event.action = None
    /\ event.outcome = "unknown_id"
    /\ Len(app.tasks) = NumInitTasks
    /\ DOMAIN app.pinned_tray_icons # {}
    /\ ~app.exited


\* the menu event just handled ran the branch of one of the prefixes with
\* index i
Commanded(ev, dec, prefixes, i) ==
    /\ ev.kind = "MenuEvent"
    /\ dec.called
    /\ dec.branch \in prefixes
    /\ dec.index = IndexRead(i)

\* every task but the one at index i is as it was
OthersUnchanged(i) ==
    /\ Len(app'.tasks) = Len(app.tasks)
    /\ \A j \in 0..(Len(app.tasks) - 1) : j # i => app'.tasks[j + 1] = app.tasks[j + 1]

\* C24: Toggle(i) and PinnedToggle(i) on an existing index pause task i if
\* it is running and start it otherwise; every other task, and the pinned
\* flag of task i, are as before.
C24_ToggleTouchesOnlyItsTask ==
    [][\A i \in 0..(Len(app.tasks) - 1) :
          Commanded(event', decoded', {str_toggle_, str_pinned_toggle_}, i) =>
              /\ OthersUnchanged(i)
              /\ app'.tasks[i + 1].pinned = app.tasks[i + 1].pinned
              /\ IF app.tasks[i + 1].is_running
                 THEN /\ app'.tasks[i + 1] = pause(app.tasks[i + 1], now).val
                      /\ ~app'.tasks[i + 1].is_running
                 ELSE /\ app'.tasks[i + 1] = start(app.tasks[i + 1], now)
                      /\ app'.tasks[i + 1].is_running
                      /\ app'.tasks[i + 1].start_time = Some(now)]_vars

\* a pinned Duration task was paused from the menu of its pinned icon after
\* running for a while, next to another task
C24_Witness ==
    \E i \in 0..(Len(app.tasks) - 1) :
        /\ Commanded(event, decoded, {str_pinned_toggle_}, i)
        /\ Len(app.tasks) > 1
        /\ app.tasks[i + 1].pinned
        /\ app.tasks[i + 1].task_type.tag = "Duration"
        /\ ~app.tasks[i + 1].is_running
        /\ app.tasks[i + 1].remaining < app.tasks[i + 1].task_type.val


\* the menu event just handled ran an index-reading branch with an index
\* that is not in the registry
OutOfRange(ev, dec, tasks) ==
    /\ ev.kind = "MenuEvent"
    /\ dec.called
    /\ dec.branch \in IndexReadingPrefixes
    /\ dec.index.ok
    /\ dec.index.val >= Len(tasks)

\* C25: Toggle, Reset, Delete, Pin, Unpin, PinnedToggle or PinnedReset with
\* an index that is not in the registry changes nothing: the tasks (their
\* number and every field) and the PinSet are as before.
C25_IndexOutOfRangeIsNoOp ==
    [][OutOfRange(event', decoded', app.tasks) =>
          /\ app'.tasks = app.tasks
          /\ PinSet(app') = PinSet(app)]_vars

\* the menu of a pinned icon that outlived its task was used: its index is
\* beyond the registry and the icon is still there
C25_Witness ==
    /\ OutOfRange(event, decoded, app.tasks)
    /\ decoded.branch \in {str_unpin_, str_pinned_toggle_, str_pinned_reset_}
    /\ decoded.index.val \in DOMAIN app.pinned_tray_icons
    /\ event.outcome = "handled"


\* C26: Delete(i) with i < n on a registry of n tasks leaves n - 1 tasks:
\* every task that was at an index j < i is still at j with the same fields
\* and every task that was at an index j > i is now at j - 1 with the same
\* fields.
C26_DeleteShiftsLaterTasks ==
    [][\A i \in 0..(Len(app.tasks) - 1) :
          Commanded(event', decoded', {str_delete_}, i) =>
              /\ Len(app'.tasks) = Len(app.tasks) - 1
              /\ \A j \in 0..(i - 1) : app'.tasks[j + 1] = app.tasks[j + 1]
              /\ \A j \in (i + 1)..(Len(app.tasks) - 1) : app'.tasks[j] = app.tasks[j + 1]]_vars

\* a task was deleted from between two others: one is left before its index
\* and one has moved down to it
C26_Witness ==
    \E i \in 1..(Len(app.tasks) - 1) :
        /\ Commanded(event, decoded, {str_delete_}, i)
        /\ event.outcome = "handled"


\* the index that denotes, after the task at index i was deleted, the task
\* that was at index k (k # i)
Renumbered(k, i) == IF k > i THEN k - 1 ELSE k

\* the prefixes of the action strings of the menu of a pinned icon
PinnedPrefixes == {str_unpin_, str_pinned_toggle_, str_pinned_reset_}

\* the identifier table entries of the menus of pinned icons
PinnedEntries(self) ==
    {id \in DOMAIN self.menu_ids :
        /\ decode(self.menu_ids[id]).branch \in PinnedPrefixes
        /\ decode(self.menu_ids[id]).index.ok}

\* C27: deleting the task at index i evicts the pinned icon and the
\* pinned_/unpin_ identifier table entries of i, and evicts or renumbers
\* those of the indices above i: a pinned icon, or a table entry, that
\* outlives the delete is keyed by the index its task has now.
C27_DeleteRenumbersPinnedTables ==
    [][\A i \in 0..(Len(app.tasks) - 1) :
          Commanded(event', decoded', {str_delete_}, i) =>
              /\ \A k \in DOMAIN app'.pinned_tray_icons :
                    \E k0 \in DOMAIN app.pinned_tray_icons \ {i} : k = Renumbered(k0, i)
              /\ \A k0 \in DOMAIN app.pinned_tray_icons, k \in DOMAIN app'.pinned_tray_icons :
                    app'.pinned_tray_icons[k] = app.pinned_tray_icons[k0] =>
                        k0 # i /\ k = Renumbered(k0, i)
              /\ \A id \in PinnedEntries(app) \cap PinnedEntries(app') :
                    /\ decode(app.menu_ids[id]).index.val # i
                    /\ decode(app'.menu_ids[id]).index.val =
                           Renumbered(decode(app.menu_ids[id]).index.val, i)]_vars


\* C28: in every reachable state a task's pinned flag is true exactly when
\* it has a pinned icon: for every index i, an icon is keyed by i iff
\* i < len(tasks) and tasks[i].pinned.
C28_PinnedIffIcon ==
    \A i \in 0..MaxIndex :
        i \in DOMAIN app.pinned_tray_icons <=>
            (i < Len(app.tasks) /\ app.tasks[i + 1].pinned)


\* the Application after handle_menu_event ran the branch of prefix on the
\* action string of index i
After(self, prefix, i) == index_branch(self, format_action(prefix, i), prefix, now).self

\* a pinned icon is keyed by index i
HasIcon(self, i) == i \in DOMAIN self.pinned_tray_icons

\* C29: Pin(i) on an existing index flips the pinned flag of task i; if the
\* task is now pinned a pinned icon for i has been created (its menu is made
\* of MenuIds handed out by this command), otherwise there is no pinned icon
\* for i; and a second Pin(i) right after brings back the pinned flag of
\* task i and whether i has a pinned icon.
C29_PinFlipsFlagAndIcon ==
    [][\A i \in 0..(Len(app.tasks) - 1) :
          Commanded(event', decoded', {str_pin_}, i) =>
              /\ app'.tasks[i + 1].pinned = ~app.tasks[i + 1].pinned
              /\ IF app'.tasks[i + 1].pinned
                 THEN /\ HasIcon(app', i)
                      /\ app'.pinned_tray_icons[i] # {}
                      /\ app'.pinned_tray_icons[i] \subseteq issued_between(app, app')
                 ELSE ~HasIcon(app', i)
              /\ After(app', str_pin_, i).tasks[i + 1].pinned = app.tasks[i + 1].pinned
              /\ HasIcon(After(app', str_pin_, i), i) <=> HasIcon(app, i)]_vars


\* the timer fields of every task
timer_fields(tasks) ==
    [k \in 1..Len(tasks) |->
        <<tasks[k].is_running, tasks[k].start_time, tasks[k].remaining>>]

\* the action strings in the identifier table
registered(self) == {self.menu_ids[id] : id \in DOMAIN self.menu_ids}

\* C30: Unpin(i) on an existing index leaves task i not pinned and without a
\* pinned icon, whatever its pinned flag was, and leaves running, started_at
\* and remaining of every task (and every other task altogether) as they
\* were; a second Unpin(i) right after changes nothing more: tasks, PinSet
\* and the registered action strings are those after the first.
C30_UnpinForcesAndIsIdempotent ==
    [][\A i \in 0..(Len(app.tasks) - 1) :
          Commanded(event', decoded', {str_unpin_}, i) =>
              /\ ~app'.tasks[i + 1].pinned
              /\ ~HasIcon(app', i)
              /\ i \notin app'.pinned_menu_items \cup app'.pinned_control_items
              /\ OthersUnchanged(i)
              /\ timer_fields(app'.tasks) = timer_fields(app.tasks)
              /\ After(app', str_unpin_, i).tasks = app'.tasks
              /\ PinSet(After(app', str_unpin_, i)) = PinSet(app')
              /\ registered(After(app', str_unpin_, i)) = registered(app')
              /\ After(app', str_unpin_, i).exited = app'.exited]_vars

\* the menu of a pinned icon was used to unpin a running task: the task is
\* not pinned, has no pinned icon and is still running
C30_Witness ==
    \E i \in 0..(Len(app.tasks) - 1) :
        /\ Commanded(event, decoded, {str_unpin_}, i)
        /\ event.outcome = "handled"
        /\ ~app.tasks[i + 1].pinned
        /\ ~HasIcon(app, i)
        /\ app.tasks[i + 1].is_running


\* the action strings build_pinned_task_menu registers for task index i
pinned_actions(i) == {format_action(prefix, i) : prefix \in PinnedPrefixes}

\* C31: the rebuild of the main menu keeps the pinned entries of the
\* identifier table: whatever rebuilds happened since, completed or failed,
\* every MenuId of the menu of a pinned tray icon that exists is in menu_ids
\* and resolves to the action string it was registered with, a pinned_toggle_,
\* pinned_reset_ or unpin_ string of the index the icon is kept under
C31_PinnedEntriesSurviveRebuilds ==
    \A i \in DOMAIN app.pinned_tray_icons :
        \A id \in app.pinned_tray_icons[i] :
            /\ id \in DOMAIN app.menu_ids
            /\ app.menu_ids[id] \in pinned_actions(i)

\* a main menu command was handled (the main menu rebuilt once more, by a
\* command other than the pin_ that made the icon) while a pinned icon with
\* its two or three entries exists
C31_Witness ==
    /\ event.kind = "MenuEvent"
    /\ event.outcome = "handled"
    /\ decoded.called
    /\ decoded.branch \in {str_toggle_, str_reset_, str_delete_}
    /\ \E i \in DOMAIN app.pinned_tray_icons :
          /\ Cardinality(app.pinned_tray_icons[i]) >= 2
          /\ \A id \in app.pinned_tray_icons[i] : id \in DOMAIN app.menu_ids
    /\ app.tray_icon # None
    /\ \E id \in app.tray_icon[1] : id \in DOMAIN app.menu_ids

\* the string is made of decimal digits, at least two, with no zero in
\* front of a number of more than two digits
IsPadded(s) ==
    /\ Len(s) >= 2
    /\ \A k \in 1..Len(s) : IsDigit(s[k])
    /\ Len(s) > 2 => s[1] # "0"

\* C32: the string displayed for a remaining time of secs whole seconds is
\* three numbers separated by ":", each padded with zeros to two digits;
\* read back they are secs / 3600, (secs % 3600) / 60 and secs % 60, the
\* last two below 60, and hours * 3600 + minutes * 60 + seconds = secs
C32_DisplayIsHoursMinutesSeconds ==
    shown.called =>
        LET parts == split(shown.text, ":")
            secs == shown.duration
        IN  /\ Len(parts) = 3
            /\ \A k \in 1..3 : IsPadded(parts[k])
            /\ LET hours == digits_value(parts[1])
                   minutes == digits_value(parts[2])
                   seconds == digits_value(parts[3])
               IN  /\ hours = secs \div 3600
                   /\ minutes = (secs % 3600) \div 60
                   /\ seconds = secs % 60
                   /\ minutes < 60
                   /\ seconds < 60
                   /\ hours * 3600 + minutes * 60 + seconds = secs

\* a time of more than an hour whose three numbers all need a zero in front
C32_Witness ==
    /\ shown.called
    /\ shown.duration = 3600 + 60 + 1
    /\ shown.text = <<"0", "1", ":", "0", "1", ":", "0", "1">>

\* C35: a control of a pinned tray icon acts on the task the icon was
\* created for: on every step that handles pinned_toggle_i, pinned_reset_i or
\* unpin_i while the icon kept under i exists, whatever commands were handled
\* since it was created, every task the step changes is the task that was at
\* index i when the icon was created, never another one
C35_PinnedControlsActOnTheirTask ==
    [][\A i \in DOMAIN app.pinned_tray_icons :
          Commanded(event', decoded', PinnedPrefixes, i) =>
              \A k \in 1..Len(app.tasks) :
                  app'.tasks[k] # app.tasks[k] => app.tasks[k].name = surface_task[i]]_vars

\* C36: a Deadline task is never running: whatever menu events were handled
\* (new task, toggle, reset, delete, pin, unpin, pinned toggle and reset), no
\* task of the registry with a Deadline has is_running set
C36_DeadlineNeverRunning ==
    \A k \in 1..Len(app.tasks) :
        app.tasks[k].task_type.tag = "Deadline" => ~app.tasks[k].is_running

\* C37: every entry of menu_ids whose action string starts with pinned_ or
\* unpin_ is an item of the menu of a pinned tray icon that exists: once the
\* icon of index i is removed (by unpin_i or by pin_i turning the flag off)
\* its entries are gone from the table
C37_PinnedEntriesHaveAnIcon ==
    \A id \in DOMAIN app.menu_ids :
        (starts_with(app.menu_ids[id], str_pinned_) \/ starts_with(app.menu_ids[id], str_unpin_))
            => \E i \in DOMAIN app.pinned_tray_icons : id \in app.pinned_tray_icons[i]

\* the prefixes of the index actions of the main menu
MainPrefixes == {str_toggle_, str_reset_, str_edit_, str_delete_, str_pin_}

\* the MenuIds of menu_ids registered with the given action string
ids_of(self, action) == {id \in DOMAIN self.menu_ids : self.menu_ids[id] = action}

\* the handler rebuilt the main menu and handed it to the tray icon
Rebuilt(before, after) ==
    /\ after.tray_icon # None
    /\ after.tray_icon # before.tray_icon

RebuildOnlyPrefixes == (IndexedPrefixes \ {str_edit_, str_pin_})

\* C39: a rebuild of the menu that fails leaves the identifier table as it
\* was: on every step that handles an index command whose refresh_menu
\* returns an error (here a clock error of get_remaining_time), menu_ids,
\* menu_items and control_items are what they were before the command, so
\* the MenuIds of the menu still on screen keep resolving
C39_FailedRebuildLeavesTable ==
    [][\A i \in 0..MaxIndex :
          (/\ Commanded(event', decoded', RebuildOnlyPrefixes, i)
           /\ ~refresh_menu(index_body(app, decoded'.branch, i, now), now).ok)
              => /\ app'.menu_ids = app.menu_ids
                 /\ app'.menu_items = app.menu_items
                 /\ app'.control_items = app.control_items]_vars

\* a widget call is made while the guard of the task list is held
widget_under_lock(sequence) ==
    \E k \in 1..Len(sequence) : sequence[k] = "widget" /\ held_before(sequence, k)

\* C33: the lock of the task list is never held while a widget call is
\* made: in the steps of every handler (menu rebuild, tick update, pinned
\* icon created or updated) no widget is created or changed between the
\* lock being taken and the guard being dropped
C33_NoWidgetCallUnderLock == ~widget_under_lock(ops)

lock_failed(sequence) == \E k \in 1..Len(sequence) : sequence[k] = "lock_err"

\* the step is user_event taking the event at the head of the queue: it
\* returns and the event leaves the queue, or it blocks
handler_ran ==
    /\ queue # << >>
    /\ queue' = Tail(queue) \/ (blocked' /\ ~blocked)

====
